---- MODULE Spec2Model ----
(***************************************************************************)
(* braidMgr: tenant routing, pooled connections, RBAC gate and audited     *)
(* transactions, as written in the repository's architecture and flow      *)
(* documents (Python), and the frontend auth client (TypeScript).          *)
(*                                                                         *)
(* The module holds several specifications over one set of variables; each *)
(* specification moves its own variables and leaves the others unchanged.  *)
(*   SpecPerm     the permission checks as pure functions                  *)
(*   SpecService  AuroraService.get_org_pool as in the service document    *)
(*   SpecRequest  one request end to end: middleware, pool, gate, handler  *)
(*   SpecRegistry the pool registry with reference counts and idle sweep   *)
(***************************************************************************)
EXTENDS Integers, Sequences, FiniteSets, TLC

None == "none"

(***************************************************************************)
(* State                                                                   *)
(***************************************************************************)

\* Permission evaluation: the inputs of one check and its result.
VARIABLES
    ev_impl,      \* which documented check is applied
    ev_org,       \* org role of the subject (JWT claim org_role)
    ev_proj,      \* project role record of the subject, None when absent
    ev_perm,      \* requested permission
    ev_result     \* "pending", "allow" or "deny"

\* AuroraService as in the service document.
VARIABLES
    svc_pools,    \* self._pools: database name -> pool, NoPool when absent
    svc_made,     \* every pool create_pool has returned, by pool id: its database
    svc_pc,       \* per caller: "idle", "creating", "returned", "raised"
    svc_arg,      \* per caller: the database_name it was called with
    svc_ret       \* per caller: the pool it got back, NoPool before that

\* One request end to end (middleware, pool cache, permission gate, handler).
VARIABLES
    guard,            \* which require_permission guards the routes
    connection_pools, \* pool cache of the routing flow: org id -> pool
    pools_made,       \* every pool create_pool has returned, by id: its database
    active,           \* per pool id: connections checked out of the pool
    db,               \* per org database: committed projects, items, audit_log
    req,              \* per request: position, inputs, bound pool, outcome
    tx                \* per request: the open transaction's uncommitted writes

\* The pool registry: AuroraService with its creation lock, pool entries with
\* reference counts, and the idle sweep.
VARIABLES
    reg_pools,    \* self._pools: locator -> PoolEntry, NoEntry when absent
    reg_lock,     \* self._pool_lock: "free", or held by a "worker" or the "sweep"
    reg_made,     \* every pool constructed, by id: its locator
    reg_closed,   \* the pools that have been closed
    reg_failed,   \* the locators a pool construction has failed for
    reg_pc,       \* per worker: "idle", "waiting_lock", "creating", "stalled",
                  \* "holding", "failed" (the call raised), "released"
    reg_loc,      \* per worker: the locator it acquires
    reg_handle,   \* per worker: the pool its handle refers to
    sweep_pc,     \* the sweep task: "idle", "scanning", "closing"
    sweep_victim, \* the pool the sweep is closing
    clock         \* seconds since start

\* Organization lookup: get_org_connection against the central database.
VARIABLES
    dir_variant,  \* which documented get_org_connection runs
    dir_orgs,     \* organizations rows: "absent", "live" or "deleted" (deleted_at set)
    dir_cache,    \* connection_pools of the cached variant: org id -> pool
    dir_call      \* per caller: position, org id, what the lookup met, result

\* Role assignment against the permission dependency of the routes.
VARIABLES
    role_log,     \* per subject: the roles its user_project_roles row has held,
                  \* oldest first; the last one is the row now
    role_req      \* per request: position, subject, permission, role read, result

\* The frontend's API client (lib/api.ts).
VARIABLES
    accessToken,  \* the module's token, None when there is none
    token_ttl,    \* the seconds the token held is still valid for
    expires_in,   \* the lifetime the server gives its access tokens, in seconds
    api_call      \* per caller of apiFetch: position, requests made, result

\* The login and registration forms (components/auth).
VARIABLES
    form_kind,      \* which form is mounted: "login" or "register"
    form_password,  \* the password field, a sequence of characters
    form_confirm,   \* the confirmPassword field (RegisterForm only)
    form_error,     \* the error state, None when null
    form_isLoading, \* the isLoading state: inputs and button are disabled
    form_pc,        \* "idle", "rejected" (validation returned), "awaiting", "settled"
    form_submits,   \* submits made
    form_requests,  \* calls of login or register made
    form_results,   \* what login or register returned, oldest first
    form_onSuccess  \* calls of onSuccess made

\* The AuthProvider (lib/auth.tsx) on top of the API client.
VARIABLES
    user,           \* the user state, None when null: isAuthenticated is user # None
    isLoading,      \* the isLoading state
    auth_task,      \* per task of the provider: the operation, its position in
                    \* apiPost, and what apiPost returned
    timers,         \* the refresh timers pending: seconds left of each, ascending
    logged_out,     \* a logout has completed and no session was set up since
    refresh_failed  \* a scheduled refresh has come back without a token since
                    \* the session was set up

evVars == <<ev_impl, ev_org, ev_proj, ev_perm, ev_result>>

svcVars == <<svc_pools, svc_made, svc_pc, svc_arg, svc_ret>>

reqVars == <<guard, connection_pools, pools_made, active, db, req, tx>>

regVars ==
    <<reg_pools, reg_lock, reg_made, reg_closed, reg_failed, reg_pc, reg_loc,
      reg_handle, sweep_pc, sweep_victim, clock>>

dirVars == <<dir_variant, dir_orgs, dir_cache, dir_call>>

roleVars == <<role_log, role_req>>

apiVars == <<accessToken, token_ttl, expires_in, api_call>>

formVars ==
    <<form_kind, form_password, form_confirm, form_error, form_isLoading, form_pc,
      form_submits, form_requests, form_results, form_onSuccess>>

authVars == <<user, isLoading, auth_task, timers, logged_out, refresh_failed>>

vars == <<evVars, svcVars, reqVars, regVars, dirVars, roleVars, apiVars, formVars, authVars>>

\* What each specification leaves alone.
notEv == <<svcVars, reqVars, regVars, dirVars, roleVars, apiVars, formVars, authVars>>

notSvc == <<evVars, reqVars, regVars, dirVars, roleVars, apiVars, formVars, authVars>>

notReq == <<evVars, svcVars, regVars, dirVars, roleVars, apiVars, formVars, authVars>>

notReg == <<evVars, svcVars, reqVars, dirVars, roleVars, apiVars, formVars, authVars>>

notDir == <<evVars, svcVars, reqVars, regVars, roleVars, apiVars, formVars, authVars>>

notRole == <<evVars, svcVars, reqVars, regVars, dirVars, apiVars, formVars, authVars>>

notApi == <<evVars, svcVars, reqVars, regVars, dirVars, roleVars, formVars, authVars>>

notForm == <<evVars, svcVars, reqVars, regVars, dirVars, roleVars, apiVars, authVars>>

notAuth == <<evVars, svcVars, reqVars, regVars, dirVars, roleVars, apiVars, formVars>>

\* What the AuthProvider and the API client both leave alone.
notSession == <<evVars, svcVars, reqVars, regVars, dirVars, roleVars, formVars>>

(***************************************************************************)
(* Permission evaluation                                                   *)
(***************************************************************************)

OrgRoles == {"owner", "admin", "member"}

ProjectRoles == {"admin", "project_manager", "team_member", "viewer"}

\* Permission enum of the permission-check flow document.
FlowPermissions == {"view", "create", "edit", "delete", "manage_team", "edit_budget"}

\* Permission enum of the auth/RBAC architecture document.
RbacPermissions ==
    {"view_items", "create_items", "update_items", "delete_items",
     "manage_workstreams", "manage_settings", "delete_project", "assign_roles",
     "edit_budget"}

\* Mutant of PROJECT_ROLE_PERMISSIONS: the viewer row also lists delete.
PROJECT_ROLE_PERMISSIONS_ViewerDeletes ==
    [role \in ProjectRoles |->
        CASE role = "admin" -> {"view", "create", "edit", "delete", "manage_team", "edit_budget"}
          [] role = "project_manager" -> {"view", "create", "edit", "delete", "edit_budget"}
          [] role = "team_member" -> {"view", "create", "edit"}
          [] role = "viewer" -> {"view", "delete"}]

PROJECT_ROLE_PERMISSIONS ==
    [role \in ProjectRoles |->
        CASE role = "admin" -> {"view", "create", "edit", "delete", "manage_team", "edit_budget"}
          [] role = "project_manager" -> {"view", "create", "edit", "delete", "edit_budget"}
          [] role = "team_member" -> {"view", "create", "edit"}
          [] role = "viewer" -> {"view"}]

ROLE_PERMISSIONS ==
    [role \in ProjectRoles |->
        CASE role = "viewer" -> {"view_items"}
          [] role = "team_member" -> {"view_items", "create_items", "update_items"}
          [] role = "project_manager" ->
                {"view_items", "create_items", "update_items", "delete_items",
                 "manage_workstreams", "manage_settings", "edit_budget"}
          [] role = "admin" -> RbacPermissions]

\* dict.get(role, set()): the empty set for a role the table does not list.
TableGet(table, role) == IF role \in DOMAIN table THEN table[role] ELSE {}

\* Mutant of check_project_permission: a missing project role is read as viewer.
check_project_permission_ViewerDefault(org_role, project_role, permission) ==
    IF org_role \in {"owner", "admin"} THEN TRUE
    ELSE IF project_role = None THEN permission \in PROJECT_ROLE_PERMISSIONS["viewer"]
    ELSE permission \in TableGet(PROJECT_ROLE_PERMISSIONS, project_role)

\* check_project_permission: org owner/admin first, then the project role.
check_project_permission(org_role, project_role, permission) ==
    IF org_role \in {"owner", "admin"} THEN TRUE
    ELSE IF project_role = None THEN FALSE
    ELSE permission \in TableGet(PROJECT_ROLE_PERMISSIONS, project_role)

\* check_permission of the auth/RBAC document: the project role alone decides;
\* the org role is not an input of the function.
check_permission(org_role, project_role, permission) ==
    IF project_role = None THEN FALSE
    ELSE permission \in TableGet(ROLE_PERMISSIONS, project_role)

\* The permissions that only read.
ReadPermissions == {"view", "view_items"}

EvalInputs ==
    ({"check_project_permission"} \X OrgRoles \X (ProjectRoles \cup {None}) \X FlowPermissions)
    \cup ({"check_permission"} \X OrgRoles \X (ProjectRoles \cup {None}) \X RbacPermissions)

EvInit ==
    \E i \in EvalInputs :
        /\ ev_impl = i[1]
        /\ ev_org = i[2]
        /\ ev_proj = i[3]
        /\ ev_perm = i[4]
        /\ ev_result = "pending"

EvIdle ==
    /\ ev_impl = None /\ ev_org = None /\ ev_proj = None /\ ev_perm = None
    /\ ev_result = "pending"

Decision(b) == IF b THEN "allow" ELSE "deny"

EvalFlow ==
    /\ ev_result = "pending"
    /\ ev_impl = "check_project_permission"
    /\ ev_result' = Decision(check_project_permission(ev_org, ev_proj, ev_perm))
    /\ UNCHANGED <<ev_impl, ev_org, ev_proj, ev_perm>>
    /\ UNCHANGED notEv

EvalRbac ==
    /\ ev_result = "pending"
    /\ ev_impl = "check_permission"
    /\ ev_result' = Decision(check_permission(ev_org, ev_proj, ev_perm))
    /\ UNCHANGED <<ev_impl, ev_org, ev_proj, ev_perm>>
    /\ UNCHANGED notEv

PermNext == EvalFlow \/ EvalRbac

(***************************************************************************)
(* AuroraService.get_org_pool, service document: check, then create        *)
(***************************************************************************)

NumCallers == 3

Callers == 1 .. NumCallers

DatabaseNames == {"braidmgr_org_acme", "braidmgr_org_globex"}

NoPool == 0

SvcInit ==
    /\ svc_pools = [d \in DatabaseNames |-> NoPool]
    /\ svc_made = <<>>
    /\ svc_pc = [c \in Callers |-> "idle"]
    /\ svc_arg = [c \in Callers |-> None]
    /\ svc_ret = [c \in Callers |-> NoPool]

\* get_org_pool up to its first suspension: the membership test, and either the
\* return of the cached pool or the start of create_pool.
SvcGetOrgPool(c, d) ==
    /\ svc_pc[c] = "idle"
    /\ svc_arg' = [svc_arg EXCEPT ![c] = d]
    /\ IF svc_pools[d] # NoPool
       THEN /\ svc_ret' = [svc_ret EXCEPT ![c] = svc_pools[d]]
            /\ svc_pc' = [svc_pc EXCEPT ![c] = "returned"]
       ELSE /\ svc_pc' = [svc_pc EXCEPT ![c] = "creating"]
            /\ UNCHANGED svc_ret
    /\ UNCHANGED <<svc_pools, svc_made>>
    /\ UNCHANGED notSvc

\* create_pool returns: the new pool is stored under the name and returned.
SvcCreatePoolReturns(c) ==
    /\ svc_pc[c] = "creating"
    /\ LET p == Len(svc_made) + 1
       IN /\ svc_made' = Append(svc_made, svc_arg[c])
          /\ svc_pools' = [svc_pools EXCEPT ![svc_arg[c]] = p]
          /\ svc_ret' = [svc_ret EXCEPT ![c] = p]
    /\ svc_pc' = [svc_pc EXCEPT ![c] = "returned"]
    /\ UNCHANGED svc_arg
    /\ UNCHANGED notSvc

\* create_pool raises (database unreachable): nothing is stored.
SvcCreatePoolRaises(c) ==
    /\ svc_pc[c] = "creating"
    /\ svc_pc' = [svc_pc EXCEPT ![c] = "raised"]
    /\ UNCHANGED <<svc_pools, svc_made, svc_arg, svc_ret>>
    /\ UNCHANGED notSvc

SvcNext ==
    \/ \E c \in Callers, d \in DatabaseNames : SvcGetOrgPool(c, d)
    \/ \E c \in Callers : SvcCreatePoolReturns(c)
    \/ \E c \in Callers : SvcCreatePoolRaises(c)

(***************************************************************************)
(* Request routing: OrgConnectionMiddleware and get_org_connection         *)
(***************************************************************************)

NumRequests == 2

Requests == 1 .. NumRequests

\* organizations table of the central database: id -> database_name.
organizations ==
    [acme |-> [database_name |-> "braidmgr_org_acme"],
     globex |-> [database_name |-> "braidmgr_org_globex"]]

Orgs == DOMAIN organizations

\* Validated token claims of the subjects that send requests, and each
\* subject's row in user_project_roles of its org database (None: no row).
\* erin's org is not in the central database; frank's token has no org_id.
Subject ==
    [alice |-> [org_id |-> "acme", org_role |-> "owner", project_role |-> None],
     bob |-> [org_id |-> "acme", org_role |-> "member", project_role |-> "team_member"],
     carol |-> [org_id |-> "globex", org_role |-> "member", project_role |-> "project_manager"],
     dave |-> [org_id |-> "globex", org_role |-> "member", project_role |-> None],
     erin |-> [org_id |-> "ghost", org_role |-> "member", project_role |-> None],
     frank |-> [org_id |-> None, org_role |-> "member", project_role |-> None]]

Subjects == DOMAIN Subject

\* The routes: /auth endpoints and the four item routes of a project.
Ops == {"auth", "list", "create", "update", "delete"}

MutatingOps == {"create", "update", "delete"}

Guards == {"dependency", "decorator"}

\* The permission each route requires, in the enum of its guard.
RoutePermission(g, op) ==
    IF g = "dependency"
    THEN CASE op = "list" -> "view" [] op = "create" -> "create"
           [] op = "update" -> "edit" [] op = "delete" -> "delete"
    ELSE CASE op = "list" -> "view_items" [] op = "create" -> "create_items"
           [] op = "update" -> "update_items" [] op = "delete" -> "delete_items"

\* max_size of every pool.
MaxSize == 10

\* The number of a project's first item (next_item_num DEFAULT 1); the update
\* and delete routes of the model address that item.
FirstItemNum == 1

NoTx ==
    [open |-> FALSE, stmt |-> 0, item_num |-> 0, next_item_num |-> 0,
     rows |-> {}, audit |-> {}, locks |-> {}]

NewRequest ==
    [pc |-> "idle", subject |-> None, op |-> None, org_pool |-> NoPool,
     conn |-> NoPool, outcome |-> None, decision |-> "pending", trace |-> <<>>,
     acquired |-> 0, released |-> 0,
     attempts |-> [lookup |-> 0, create_pool |-> 0, operation |-> 0]]

\* The request has made one more call of the given kind.
Attempted(rec, call) == [rec EXCEPT !.attempts[call] = @ + 1]

\* A project with one item and no audit rows yet (create_item writes none).
InitialDatabase ==
    [next_item_num |-> FirstItemNum + 1,
     items |-> {[item_num |-> FirstItemNum, rev |-> 0, deleted |-> FALSE, writers |-> {}]},
     audit |-> {}]

ReqInit ==
    /\ guard \in Guards
    /\ connection_pools = [o \in Orgs |-> NoPool]
    /\ pools_made = <<>>
    /\ active = <<>>
    /\ db = [d \in DatabaseNames |-> InitialDatabase]
    /\ req = [r \in Requests |-> NewRequest]
    /\ tx = [r \in Requests |-> NoTx]

ReqIdle ==
    /\ guard = "dependency"
    /\ connection_pools = [o \in Orgs |-> NoPool]
    /\ pools_made = <<>>
    /\ active = <<>>
    /\ db = [d \in DatabaseNames |-> InitialDatabase]
    /\ req = [r \in Requests |-> NewRequest]
    /\ tx = [r \in Requests |-> NoTx]

OrgOf(r) == Subject[req[r].subject].org_id

\* The response leaves the middleware: the request is over.
Respond(rec, outcome) ==
    [rec EXCEPT !.pc = "responded", !.outcome = outcome,
                !.trace = Append(@, "Released")]

\* pool.acquire(): one more connection checked out of pool p.
Checkout(p) == [active EXCEPT ![p] = @ + 1]

\* Leaving `async with pool.acquire()`: the connection goes back to pool p.
Checkin(p) == [active EXCEPT ![p] = @ - 1]

\* Mutant of CacheLookup: the cache is read without regard to the org id.
CacheLookup_AnyOrg(org_id) ==
    IF \E o \in Orgs : connection_pools[o] # NoPool
    THEN connection_pools[CHOOSE o \in Orgs : connection_pools[o] # NoPool]
    ELSE NoPool

\* `if org_id in connection_pools: return connection_pools[org_id]`
CacheLookup(org_id) ==
    IF org_id \in Orgs THEN connection_pools[org_id] ELSE NoPool

\* request.state.org_pool = pool; call_next enters the route, whose permission
\* guard starts its role query on a connection of that pool.
BindPool(rec, p) ==
    [rec EXCEPT !.org_pool = p, !.conn = p, !.pc = "perm_query",
                !.acquired = @ + 1, !.trace = Append(@, "PoolAcquired")]

\* dispatch up to its first suspension.
Dispatch(r, s, op) ==
    /\ req[r].pc = "idle"
    /\ LET rec == [req[r] EXCEPT !.subject = s, !.op = op]
           org_id == Subject[s].org_id
           hit == CacheLookup(org_id)
       IN  IF op = "auth"
           THEN /\ req' = [req EXCEPT ![r] = [rec EXCEPT !.pc = "auth_handler"]]
                /\ UNCHANGED active
           ELSE IF org_id = None
           THEN /\ req' = [req EXCEPT ![r] =
                        Respond([rec EXCEPT !.trace = <<"Resolving">>], "AuthenticationError")]
                /\ UNCHANGED active
           ELSE IF hit # NoPool
           THEN /\ active[hit] < MaxSize
                /\ req' = [req EXCEPT ![r] =
                        BindPool([rec EXCEPT !.trace = <<"Resolving">>], hit)]
                /\ active' = Checkout(hit)
           ELSE /\ req' = [req EXCEPT ![r] =
                        [rec EXCEPT !.pc = "lookup_org", !.trace = <<"Resolving">>]]
                /\ UNCHANGED active
    /\ UNCHANGED <<guard, connection_pools, pools_made, db, tx>>
    /\ UNCHANGED notReq

\* An /auth endpoint answers; it never touches an org database.
AuthHandlerReturns(r) ==
    /\ req[r].pc = "auth_handler"
    /\ req' = [req EXCEPT ![r] = Respond(@, "ok")]
    /\ UNCHANGED <<guard, connection_pools, pools_made, active, db, tx>>
    /\ UNCHANGED notReq

\* central_db.get_organization returns: no row raises NotFoundError, a row
\* starts create_pool for its database_name.
GetOrganizationReturns(r) ==
    /\ req[r].pc = "lookup_org"
    /\ IF OrgOf(r) \in Orgs
       THEN req' = [req EXCEPT ![r] = Attempted([@ EXCEPT !.pc = "creating_pool"], "lookup")]
       ELSE req' = [req EXCEPT ![r] = Respond(Attempted(@, "lookup"), "NotFoundError")]
    /\ UNCHANGED <<guard, connection_pools, pools_made, active, db, tx>>
    /\ UNCHANGED notReq

\* BaseService.with_retry: attempts made when every attempt raises.
max_attempts == 3

\* Mutant of GetOrganizationRaises: the lookup is wrapped in with_retry.
GetOrganizationRaises_Retried(r) ==
    /\ req[r].pc = "lookup_org"
    /\ IF req[r].attempts.lookup < max_attempts - 1
       THEN req' = [req EXCEPT ![r] = Attempted(@, "lookup")]
       ELSE req' = [req EXCEPT ![r] = Respond(Attempted(@, "lookup"), "CentralDatabaseError")]
    /\ UNCHANGED <<guard, connection_pools, pools_made, active, db, tx>>
    /\ UNCHANGED notReq

\* The central database is unreachable: the lookup raises.
GetOrganizationRaises(r) ==
    /\ req[r].pc = "lookup_org"
    /\ req' = [req EXCEPT ![r] = Respond(Attempted(@, "lookup"), "CentralDatabaseError")]
    /\ UNCHANGED <<guard, connection_pools, pools_made, active, db, tx>>
    /\ UNCHANGED notReq

\* create_pool returns: the pool is cached under the org id, bound to the
\* request, and the route is entered.
CreatePoolReturns(r) ==
    /\ req[r].pc = "creating_pool"
    /\ LET p == Len(pools_made) + 1
       IN /\ pools_made' = Append(pools_made, organizations[OrgOf(r)].database_name)
          /\ connection_pools' = [connection_pools EXCEPT ![OrgOf(r)] = p]
          /\ active' = Append(active, 1)
          /\ req' = [req EXCEPT ![r] = BindPool(Attempted(@, "create_pool"), p)]
    /\ UNCHANGED <<guard, db, tx>>
    /\ UNCHANGED notReq

\* create_pool raises (org database unreachable): nothing is cached.
CreatePoolRaises(r) ==
    /\ req[r].pc = "creating_pool"
    /\ req' = [req EXCEPT ![r] = Respond(Attempted(@, "create_pool"), "CreatePoolError")]
    /\ UNCHANGED <<guard, connection_pools, pools_made, active, db, tx>>
    /\ UNCHANGED notReq

(***************************************************************************)
(* The permission gate: require_permission                                 *)
(***************************************************************************)

\* The check the guard of the routes calls, on the subject's token org role
\* and its user_project_roles row.
HasPermission(g, s, op) ==
    IF g = "dependency"
    THEN check_project_permission(Subject[s].org_role, Subject[s].project_role,
                                  RoutePermission(g, op))
    ELSE check_permission(Subject[s].org_role, Subject[s].project_role,
                          RoutePermission(g, op))

\* Mutant of Gate: the handler is entered whatever the check returned.
Gate_Open(rec, allowed) ==
    [rec EXCEPT !.decision = Decision(allowed), !.pc = "permitted",
                !.trace = Append(@, "PermissionChecked")]

\* `if not has_permission: raise ...` - 403 on deny, the handler on allow.
Gate(rec, allowed) ==
    IF allowed
    THEN [rec EXCEPT !.decision = "allow", !.pc = "permitted",
                     !.trace = Append(@, "PermissionChecked")]
    ELSE Respond([rec EXCEPT !.decision = "deny",
                             !.trace = Append(@, "PermissionChecked")],
                 "AuthorizationError")

\* Mutant of PutBack: the connection is not returned to the pool.
PutBack_Leak(rec) == [rec EXCEPT !.conn = NoPool]

\* The request's connection goes back to its pool.
PutBack(rec) == [rec EXCEPT !.conn = NoPool, !.released = @ + 1]

\* The active counts once request record `before` has become `after`.
ActiveAfter(before, after) ==
    IF after.released > before.released THEN Checkin(before.conn) ELSE active

\* The role query returns, its connection is released, the guard decides.
PermissionQueryReturns(r) ==
    /\ req[r].pc = "perm_query"
    /\ LET back == PutBack(req[r])
       IN /\ req' = [req EXCEPT ![r] =
                        Gate(back, HasPermission(guard, req[r].subject, req[r].op))]
          /\ active' = ActiveAfter(req[r], back)
    /\ UNCHANGED <<guard, connection_pools, pools_made, db, tx>>
    /\ UNCHANGED notReq

\* The role query raises: the connection is released, the request fails.
PermissionQueryRaises(r) ==
    /\ req[r].pc = "perm_query"
    /\ LET back == PutBack(req[r])
       IN /\ req' = [req EXCEPT ![r] = Respond(back, "RoleQueryError")]
          /\ active' = ActiveAfter(req[r], back)
    /\ UNCHANGED <<guard, connection_pools, pools_made, db, tx>>
    /\ UNCHANGED notReq

(***************************************************************************)
(* Handlers: execute_query for reads, aurora.transaction for mutations     *)
(***************************************************************************)

\* The statements each mutating handler issues inside its transaction.
\* create_item: the project's counter, then the item. Update and delete: the
\* current item, the item write, then log_change on the same connection.
Statements(op) ==
    CASE op = "create" -> <<"update_project", "insert_item">>
      [] op = "update" -> <<"select_item", "update_item", "insert_audit">>
      [] op = "delete" -> <<"select_item", "soft_delete_item", "insert_audit">>

\* The database a pool connects to.
DatabaseOf(p) == pools_made[p]

\* The committed, not soft-deleted item n of database d, as a set (empty: none).
CurrentItem(d, n) == {i \in db[d].items : i.item_num = n /\ ~i.deleted}

\* Mutant of LockFree: the UPDATE of a row does not wait for the transaction
\* that holds its lock.
LockFree_Never(r, d, key) == TRUE

\* Row locks are held by open transactions until they end.
LockFree(r, d, key) ==
    \A q \in Requests \ {r} :
        (tx[q].open /\ DatabaseOf(req[q].conn) = d) => key \notin tx[q].locks

\* log_change: one INSERT INTO audit_log on the connection it is given.
log_change(t, corr, user_id, action, entity_id) ==
    [t EXCEPT !.audit = @ \cup
        {[corr |-> corr, user_id |-> user_id, action |-> action,
          entity_type |-> "item", entity_id |-> entity_id]}]

\* The handler starts: pool.acquire(), then either the query of a read or
\* BEGIN of a transaction.
HandlerBegins(r) ==
    /\ req[r].pc = "permitted"
    /\ active[req[r].org_pool] < MaxSize
    /\ active' = Checkout(req[r].org_pool)
    /\ req' = [req EXCEPT ![r].conn = req[r].org_pool,
                          ![r].acquired = @ + 1,
                          ![r].attempts.operation = @ + 1,
                          ![r].trace = Append(@, "Executing"),
                          ![r].pc = IF req[r].op \in MutatingOps
                                    THEN "tx_open" ELSE "querying"]
    /\ tx' = [tx EXCEPT ![r] = IF req[r].op \in MutatingOps
                               THEN [NoTx EXCEPT !.open = TRUE] ELSE NoTx]
    /\ UNCHANGED <<guard, connection_pools, pools_made, db>>
    /\ UNCHANGED notReq

\* execute_query returns its rows; the connection is released.
QueryReturns(r) ==
    /\ req[r].pc = "querying"
    /\ LET back == PutBack(req[r])
       IN /\ req' = [req EXCEPT ![r] = Respond(back, "ok")]
          /\ active' = ActiveAfter(req[r], back)
    /\ UNCHANGED <<guard, connection_pools, pools_made, db, tx>>
    /\ UNCHANGED notReq

\* execute_query raises; the connection is released.
QueryRaises(r) ==
    /\ req[r].pc = "querying"
    /\ LET back == PutBack(req[r])
       IN /\ req' = [req EXCEPT ![r] = Respond(back, "QueryError")]
          /\ active' = ActiveAfter(req[r], back)
    /\ UNCHANGED <<guard, connection_pools, pools_made, db, tx>>
    /\ UNCHANGED notReq

\* The next statement of the open transaction runs on its connection. Its
\* writes stay in the transaction until COMMIT.
Statement(r) ==
    /\ req[r].pc = "tx_open"
    /\ tx[r].stmt < Len(Statements(req[r].op))
    /\ LET d == DatabaseOf(req[r].conn)
           st == Statements(req[r].op)[tx[r].stmt + 1]
           t == [tx[r] EXCEPT !.stmt = @ + 1]
           n == tx[r].item_num
       IN  CASE st = "update_project" ->
                  /\ LockFree(r, d, <<"project", 0>>)
                  /\ tx' = [tx EXCEPT ![r] =
                        [t EXCEPT !.locks = @ \cup {<<"project", 0>>},
                                  !.item_num = db[d].next_item_num,
                                  !.next_item_num = db[d].next_item_num + 1]]
             [] st = "insert_item" ->
                  tx' = [tx EXCEPT ![r] =
                        [t EXCEPT !.rows = @ \cup
                            {[item_num |-> n, rev |-> 0, deleted |-> FALSE,
                              writers |-> {r}]}]]
             [] st = "select_item" ->
                  /\ CurrentItem(d, FirstItemNum) # {}
                  /\ tx' = [tx EXCEPT ![r] = [t EXCEPT !.item_num = FirstItemNum]]
             [] st \in {"update_item", "soft_delete_item"} ->
                  /\ LockFree(r, d, <<"item", n>>)
                  /\ \E row \in {i \in db[d].items : i.item_num = n} :
                        tx' = [tx EXCEPT ![r] =
                            [t EXCEPT !.locks = @ \cup {<<"item", n>>},
                                      !.rows = @ \cup
                                        {[row EXCEPT !.rev = @ + 1,
                                                     !.deleted = (st = "soft_delete_item") \/ @,
                                                     !.writers = @ \cup {r}]}]]
             [] st = "insert_audit" ->
                  tx' = [tx EXCEPT ![r] =
                        log_change(t, r, req[r].subject,
                                   IF req[r].op = "update" THEN "UPDATE" ELSE "DELETE", n)]
    /\ UNCHANGED <<guard, connection_pools, pools_made, active, db, req>>
    /\ UNCHANGED notReq

\* Mutant of Applied: the audit rows of an entity are rewritten by the latest
\* change to it instead of being added to.
Applied_AuditRewritten(d, t) ==
    [next_item_num |-> IF t.next_item_num # 0 THEN t.next_item_num
                       ELSE db[d].next_item_num,
     items |-> {i \in db[d].items :
                    \A w \in t.rows : w.item_num # i.item_num} \cup t.rows,
     audit |-> {a \in db[d].audit :
                    \A b \in t.audit : b.entity_id # a.entity_id} \cup t.audit]

\* Database d with the writes of transaction t applied.
Applied(d, t) ==
    [next_item_num |-> IF t.next_item_num # 0 THEN t.next_item_num
                       ELSE db[d].next_item_num,
     items |-> {i \in db[d].items :
                    \A w \in t.rows : w.item_num # i.item_num} \cup t.rows,
     audit |-> db[d].audit \cup t.audit]

\* Mutant of TransactionExit: the writes are kept when the block raised.
TransactionExit_KeepOnError(d, t, raised) == Applied(d, t)

\* Leaving `async with conn.transaction()`: COMMIT on a normal exit,
\* ROLLBACK when the block raised.
TransactionExit(d, t, raised) == IF raised THEN db[d] ELSE Applied(d, t)

\* The handler's block ends normally: the transaction commits.
Commit(r) ==
    /\ req[r].pc = "tx_open"
    /\ tx[r].stmt = Len(Statements(req[r].op))
    /\ LET d == DatabaseOf(req[r].conn)
       IN db' = [db EXCEPT ![d] = TransactionExit(d, tx[r], FALSE)]
    /\ tx' = [tx EXCEPT ![r] = NoTx]
    /\ req' = [req EXCEPT ![r].pc = "tx_done", ![r].outcome = "ok",
                          ![r].trace = Append(@, "Committed")]
    /\ UNCHANGED <<guard, connection_pools, pools_made, active>>
    /\ UNCHANGED notReq

\* Something inside the block raises (a statement, the item is not found, the
\* handler's own code, or COMMIT itself): the transaction rolls back.
Raise(r) ==
    /\ req[r].pc = "tx_open"
    /\ LET d == DatabaseOf(req[r].conn)
       IN db' = [db EXCEPT ![d] = TransactionExit(d, tx[r], TRUE)]
    /\ tx' = [tx EXCEPT ![r] = [NoTx EXCEPT !.stmt = tx[r].stmt]]
    /\ req' = [req EXCEPT ![r].pc = "tx_done", ![r].outcome = "OperationFailed",
                          ![r].trace = Append(@, "RolledBack")]
    /\ UNCHANGED <<guard, connection_pools, pools_made, active>>
    /\ UNCHANGED notReq

\* Mutant of ExitAcquire: the connection is released on the normal exit only.
ExitAcquire_NotOnError(rec, raised) ==
    IF raised THEN [rec EXCEPT !.conn = NoPool] ELSE PutBack(rec)

\* Leaving `async with pool.acquire()`: the connection is released whether the
\* block ended normally or raised.
ExitAcquire(rec, raised) == PutBack(rec)

\* Leaving `async with pool.acquire()` after the transaction has ended.
ReleaseConnection(r) ==
    /\ req[r].pc = "tx_done"
    /\ LET back == ExitAcquire(req[r], req[r].outcome # "ok")
       IN /\ req' = [req EXCEPT ![r] = Respond(back, req[r].outcome)]
          /\ active' = ActiveAfter(req[r], back)
    /\ UNCHANGED <<guard, connection_pools, pools_made, db, tx>>
    /\ UNCHANGED notReq

\* Everything a started request can do next.
Step(r) ==
    \/ AuthHandlerReturns(r)
    \/ GetOrganizationReturns(r)
    \/ GetOrganizationRaises(r)
    \/ CreatePoolReturns(r)
    \/ CreatePoolRaises(r)
    \/ PermissionQueryReturns(r)
    \/ PermissionQueryRaises(r)
    \/ HandlerBegins(r)
    \/ QueryReturns(r)
    \/ QueryRaises(r)
    \/ Statement(r)
    \/ Commit(r)
    \/ Raise(r)
    \/ ReleaseConnection(r)

RequestNext ==
    \/ \E r \in Requests, s \in Subjects, op \in Ops : Dispatch(r, s, op)
    \/ \E r \in Requests : Step(r)

(***************************************************************************)
(* Pool registry: get_org_pool under the creation lock, reference counts,  *)
(* release, and the idle sweep                                             *)
(***************************************************************************)

NumWorkers == 2

Workers == 1 .. NumWorkers

\* Pools constructed in one run of the model.
MaxPools == 3

\* max_idle_time: seconds a pool may stay unused before the sweep takes it.
IdleThreshold == 300

\* Seconds the clock advances in one step, and where the clock stops.
TickSeconds == 150

MaxClock == 600

NoEntry == [pool |-> NoPool, created |-> 0, last_used |-> 0, refs |-> 0]

RegInit ==
    /\ reg_pools = [l \in DatabaseNames |-> NoEntry]
    /\ reg_lock = "free"
    /\ reg_made = <<>>
    /\ reg_closed = {}
    /\ reg_failed = {}
    /\ reg_pc = [w \in Workers |-> "idle"]
    /\ reg_loc = [w \in Workers |-> None]
    /\ reg_handle = [w \in Workers |-> NoPool]
    /\ sweep_pc = "idle"
    /\ sweep_victim = NoPool
    /\ clock = 0

\* A handle is given out: one more in-flight reference, used now.
Ref(entry) == [entry EXCEPT !.refs = @ + 1, !.last_used = clock]

\* Mutant of SweepEligible: the idle time is compared the wrong way round.
SweepEligible_WrongSide(entry) ==
    /\ entry.pool # NoPool
    /\ clock - entry.last_used < IdleThreshold
    /\ entry.refs = 0

\* Mutant of SweepEligible: the reference count is not looked at.
SweepEligible_IgnoreRefs(entry) ==
    entry.pool # NoPool /\ clock - entry.last_used > IdleThreshold

\* What the sweep may evict: idle for longer than the threshold, and no
\* in-flight reference.
SweepEligible(entry) ==
    /\ entry.pool # NoPool
    /\ clock - entry.last_used > IdleThreshold
    /\ entry.refs = 0

\* Where a worker is between two calls: it has not called yet, its last
\* get_org_pool raised, or it has released its handle.
Resting == {"idle", "failed", "released"}

\* The calls of get_org_pool that may still construct a pool.
Constructing == {w \in Workers : reg_pc[w] \in {"waiting_lock", "creating", "stalled"}}

\* get_org_pool, first test: the pool is there and is returned; otherwise the
\* caller goes for the lock.
RegGetOrgPool(w, l) ==
    /\ reg_pc[w] \in Resting
    /\ reg_pools[l].pool = NoPool => Len(reg_made) + Cardinality(Constructing) < MaxPools
    /\ reg_loc' = [reg_loc EXCEPT ![w] = l]
    /\ IF reg_pools[l].pool # NoPool
       THEN /\ reg_pools' = [reg_pools EXCEPT ![l] = Ref(@)]
            /\ reg_handle' = [reg_handle EXCEPT ![w] = reg_pools[l].pool]
            /\ reg_pc' = [reg_pc EXCEPT ![w] = "holding"]
       ELSE /\ reg_pc' = [reg_pc EXCEPT ![w] = "waiting_lock"]
            /\ UNCHANGED <<reg_pools, reg_handle>>
    /\ UNCHANGED <<reg_lock, reg_made, reg_closed, reg_failed, sweep_pc, sweep_victim, clock>>
    /\ UNCHANGED notReg

\* `async with self._pool_lock`, and the second test under the lock: a pool
\* that appeared meanwhile is returned and the lock released; otherwise
\* create_pool starts with the lock held.
RegLockAcquired(w) ==
    /\ reg_pc[w] = "waiting_lock"
    /\ reg_lock = "free"
    /\ LET l == reg_loc[w]
       IN IF reg_pools[l].pool # NoPool
          THEN /\ reg_pools' = [reg_pools EXCEPT ![l] = Ref(@)]
               /\ reg_handle' = [reg_handle EXCEPT ![w] = reg_pools[l].pool]
               /\ reg_pc' = [reg_pc EXCEPT ![w] = "holding"]
               /\ UNCHANGED reg_lock
          ELSE /\ reg_lock' = "worker"
               /\ reg_pc' = [reg_pc EXCEPT ![w] = "creating"]
               /\ UNCHANGED <<reg_pools, reg_handle>>
    /\ UNCHANGED <<reg_made, reg_closed, reg_failed, reg_loc, sweep_pc, sweep_victim, clock>>
    /\ UNCHANGED notReg

\* create_pool returns: the entry is stored, the pool returned, the lock
\* released.
RegCreatePoolReturns(w) ==
    /\ reg_pc[w] = "creating"
    /\ LET p == Len(reg_made) + 1
       IN /\ reg_made' = Append(reg_made, reg_loc[w])
          /\ reg_pools' = [reg_pools EXCEPT ![reg_loc[w]] =
                Ref([pool |-> p, created |-> clock, last_used |-> clock, refs |-> 0])]
          /\ reg_handle' = [reg_handle EXCEPT ![w] = p]
    /\ reg_lock' = "free"
    /\ reg_pc' = [reg_pc EXCEPT ![w] = "holding"]
    /\ UNCHANGED <<reg_closed, reg_failed, reg_loc, sweep_pc, sweep_victim, clock>>
    /\ UNCHANGED notReg

\* Mutant of RegCreatePoolRaises: the entry reserved for the pool under
\* construction stays in the map when the construction fails.
RegCreatePoolRaises_Poison(w) ==
    /\ reg_pc[w] = "creating"
    /\ reg_lock' = "free"
    /\ reg_pc' = [reg_pc EXCEPT ![w] = "failed"]
    /\ reg_failed' = reg_failed \cup {reg_loc[w]}
    /\ reg_pools' = [reg_pools EXCEPT ![reg_loc[w]] =
            [pool |-> Len(reg_made) + 1, created |-> clock, last_used |-> clock,
             refs |-> 0]]
    /\ UNCHANGED <<reg_made, reg_closed, reg_loc, reg_handle, sweep_pc, sweep_victim, clock>>
    /\ UNCHANGED notReg

\* create_pool raises: the exception leaves the `async with`, which releases
\* the lock, and reaches the caller; nothing is stored.
RegCreatePoolRaises(w) ==
    /\ reg_pc[w] = "creating"
    /\ reg_lock' = "free"
    /\ reg_pc' = [reg_pc EXCEPT ![w] = "failed"]
    /\ reg_failed' = reg_failed \cup {reg_loc[w]}
    /\ UNCHANGED <<reg_pools, reg_made, reg_closed, reg_loc, reg_handle, sweep_pc,
                   sweep_victim, clock>>
    /\ UNCHANGED notReg

\* create_pool neither returns nor raises: the await carries no timeout, and
\* the caller stays inside `async with self._pool_lock`.
RegCreatePoolStalls(w) ==
    /\ reg_pc[w] = "creating"
    /\ reg_pc' = [reg_pc EXCEPT ![w] = "stalled"]
    /\ UNCHANGED <<reg_pools, reg_lock, reg_made, reg_closed, reg_failed, reg_loc,
                   reg_handle, sweep_pc, sweep_victim, clock>>
    /\ UNCHANGED notReg

\* Mutant of Unref: the count is reset instead of decremented.
Unref_Reset(entry) == [entry EXCEPT !.refs = 0]

\* release(handle): one reference fewer; the pool stays open and registered.
Unref(entry) == [entry EXCEPT !.refs = @ - 1]

\* release(handle): the caller is done with the pool.
RegRelease(w) ==
    /\ reg_pc[w] = "holding"
    /\ reg_pools' = [l \in DatabaseNames |->
            IF reg_pools[l].pool = reg_handle[w] THEN Unref(reg_pools[l])
            ELSE reg_pools[l]]
    /\ reg_pc' = [reg_pc EXCEPT ![w] = "released"]
    /\ reg_handle' = [reg_handle EXCEPT ![w] = NoPool]
    /\ UNCHANGED <<reg_lock, reg_made, reg_closed, reg_failed, reg_loc, sweep_pc,
                   sweep_victim, clock>>
    /\ UNCHANGED notReg

\* The sweep wakes up and takes the lock that guards the map.
SweepBegins ==
    /\ sweep_pc = "idle"
    /\ reg_lock = "free"
    /\ reg_lock' = "sweep"
    /\ sweep_pc' = "scanning"
    /\ UNCHANGED <<reg_pools, reg_made, reg_closed, reg_failed, reg_pc, reg_loc, reg_handle,
                   sweep_victim, clock>>
    /\ UNCHANGED notReg

\* The sweep finds an evictable entry: it is removed from the map in the same
\* step as it is tested, and the close of its pool starts.
SweepEvicts(l) ==
    /\ sweep_pc = "scanning"
    /\ SweepEligible(reg_pools[l])
    /\ sweep_victim' = reg_pools[l].pool
    /\ reg_pools' = [reg_pools EXCEPT ![l] = NoEntry]
    /\ sweep_pc' = "closing"
    /\ UNCHANGED <<reg_lock, reg_made, reg_closed, reg_failed, reg_pc, reg_loc, reg_handle, clock>>
    /\ UNCHANGED notReg

\* pool.close() of the evicted pool returns.
SweepPoolClosed ==
    /\ sweep_pc = "closing"
    /\ reg_closed' = reg_closed \cup {sweep_victim}
    /\ sweep_victim' = NoPool
    /\ sweep_pc' = "scanning"
    /\ UNCHANGED <<reg_pools, reg_lock, reg_made, reg_failed, reg_pc, reg_loc,
                   reg_handle, clock>>
    /\ UNCHANGED notReg

\* The sweep has looked at every entry and releases the lock.
SweepEnds ==
    /\ sweep_pc = "scanning"
    /\ \A l \in DatabaseNames : ~SweepEligible(reg_pools[l])
    /\ reg_lock' = "free"
    /\ sweep_pc' = "idle"
    /\ UNCHANGED <<reg_pools, reg_made, reg_closed, reg_failed, reg_pc, reg_loc, reg_handle,
                   sweep_victim, clock>>
    /\ UNCHANGED notReg

\* Time passes.
Tick ==
    /\ clock + TickSeconds <= MaxClock
    /\ clock' = clock + TickSeconds
    /\ UNCHANGED <<reg_pools, reg_lock, reg_made, reg_closed, reg_failed, reg_pc, reg_loc,
                   reg_handle, sweep_pc, sweep_victim>>
    /\ UNCHANGED notReg

RegistryNext ==
    \/ \E w \in Workers, l \in DatabaseNames : RegGetOrgPool(w, l)
    \/ \E w \in Workers : RegLockAcquired(w)
    \/ \E w \in Workers : RegCreatePoolReturns(w)
    \/ \E w \in Workers : RegCreatePoolRaises(w)
    \/ \E w \in Workers : RegCreatePoolStalls(w)
    \/ \E w \in Workers : RegRelease(w)
    \/ SweepBegins
    \/ \E l \in DatabaseNames : SweepEvicts(l)
    \/ SweepPoolClosed
    \/ SweepEnds
    \/ Tick

(***************************************************************************)
(* get_org_connection: the organization lookup in the central database,    *)
(* in its two documented forms, while organizations are soft-deleted       *)
(***************************************************************************)

NumDirCallers == 2

DirCallers == 1 .. NumDirCallers

\* The org ids a token may carry: the organizations, and one without a row.
DirOrgIds == Orgs \cup {"ghost"}

\* "routing": lookup by SQL, then get_org_pool.  "cached": pool cache by org
\* id, then central_db.get_organization, then create_pool.
DirVariants == {"routing", "cached"}

NoCall == [pc |-> "idle", org |-> None, at_start |-> None, seen |-> None,
           database |-> None, out |-> None]

DirInit ==
    /\ dir_variant \in DirVariants
    /\ dir_orgs = [o \in DirOrgIds |-> IF o \in Orgs THEN "live" ELSE "absent"]
    /\ dir_cache = [o \in DirOrgIds |-> None]
    /\ dir_call = [c \in DirCallers |-> NoCall]

DirIdle ==
    /\ dir_variant = "routing"
    /\ dir_orgs = [o \in DirOrgIds |-> IF o \in Orgs THEN "live" ELSE "absent"]
    /\ dir_cache = [o \in DirOrgIds |-> None]
    /\ dir_call = [c \in DirCallers |-> NoCall]

\* SELECT database_name FROM organizations WHERE id = $1: the row of any
\* organization that has one, whatever its deleted_at.
select_database_name(o) ==
    IF dir_orgs[o] = "absent" THEN None ELSE organizations[o].database_name

\* central_db.get_organization: the organization's record, None when there
\* is no row or the row is soft-deleted.
get_organization(o) ==
    IF dir_orgs[o] = "live" THEN organizations[o].database_name ELSE None

\* get_org_connection is called: the cached variant answers from
\* connection_pools when the org id is there; otherwise the lookup starts.
DirGetOrgConnection(c, o) ==
    /\ dir_call[c].pc \in {"idle", "returned", "raised"}
    /\ IF dir_variant = "cached" /\ dir_cache[o] # None
       THEN dir_call' = [dir_call EXCEPT ![c] =
                [NoCall EXCEPT !.pc = "returned", !.org = o,
                               !.at_start = dir_orgs[o], !.out = dir_cache[o]]]
       ELSE dir_call' = [dir_call EXCEPT ![c] =
                [NoCall EXCEPT !.pc = "lookup", !.org = o, !.at_start = dir_orgs[o]]]
    /\ UNCHANGED <<dir_variant, dir_orgs, dir_cache>>
    /\ UNCHANGED notDir

\* The lookup returns: no record raises NotFoundError, a record leads on to
\* the pool of its database.
DirLookupReturns(c) ==
    /\ dir_call[c].pc = "lookup"
    /\ LET o == dir_call[c].org
           org == IF dir_variant = "routing" THEN select_database_name(o)
                  ELSE get_organization(o)
       IN dir_call' = [dir_call EXCEPT ![c] =
            IF org = None
            THEN [@ EXCEPT !.pc = "raised", !.seen = dir_orgs[o], !.out = "NotFoundError"]
            ELSE [@ EXCEPT !.pc = "pool", !.seen = dir_orgs[o], !.database = org]]
    /\ UNCHANGED <<dir_variant, dir_orgs, dir_cache>>
    /\ UNCHANGED notDir

\* The central database is unavailable: the lookup raises the database's
\* error.
DirLookupRaises(c) ==
    /\ dir_call[c].pc = "lookup"
    /\ dir_call' = [dir_call EXCEPT ![c] =
            [@ EXCEPT !.pc = "raised", !.seen = "unavailable",
                      !.out = "CentralDatabaseError"]]
    /\ UNCHANGED <<dir_variant, dir_orgs, dir_cache>>
    /\ UNCHANGED notDir

\* The pool of the org database is there (get_org_pool, or create_pool and
\* the cache by org id) and is returned.
DirPoolReturns(c) ==
    /\ dir_call[c].pc = "pool"
    /\ dir_call' = [dir_call EXCEPT ![c] =
            [@ EXCEPT !.pc = "returned", !.out = dir_call[c].database]]
    /\ dir_cache' = IF dir_variant = "cached"
                    THEN [dir_cache EXCEPT ![dir_call[c].org] = dir_call[c].database]
                    ELSE dir_cache
    /\ UNCHANGED <<dir_variant, dir_orgs>>
    /\ UNCHANGED notDir

\* The pool cannot be created: the error reaches the caller.
DirPoolRaises(c) ==
    /\ dir_call[c].pc = "pool"
    /\ dir_call' = [dir_call EXCEPT ![c] = [@ EXCEPT !.pc = "raised", !.out = "CreatePoolError"]]
    /\ UNCHANGED <<dir_variant, dir_orgs, dir_cache>>
    /\ UNCHANGED notDir

\* soft_delete of an organization: deleted_at is set on its row.
DirSoftDelete(o) ==
    /\ dir_orgs[o] = "live"
    /\ dir_orgs' = [dir_orgs EXCEPT ![o] = "deleted"]
    /\ UNCHANGED <<dir_variant, dir_cache, dir_call>>
    /\ UNCHANGED notDir

DirectoryNext ==
    \/ \E c \in DirCallers, o \in DirOrgIds : DirGetOrgConnection(c, o)
    \/ \E c \in DirCallers : DirLookupReturns(c)
    \/ \E c \in DirCallers : DirLookupRaises(c)
    \/ \E c \in DirCallers : DirPoolReturns(c)
    \/ \E c \in DirCallers : DirPoolRaises(c)
    \/ \E o \in DirOrgIds : DirSoftDelete(o)

(***************************************************************************)
(* require_permission per request while project roles are reassigned       *)
(***************************************************************************)

NumRoleRequests == 2

RoleRequests == 1 .. NumRoleRequests

\* Role assignments made in one run of the model.
MaxRoleChanges == 2

\* Org members whose access rests on their project role.
RoleSubjects == {s \in Subjects : Subject[s].org_id \in Orgs /\ Subject[s].org_role = "member"}

\* The permissions the routes ask for.
RoutePermissions == {RoutePermission("dependency", op) : op \in Ops \ {"auth"}}

NoRoleRequest ==
    [pc |-> "idle", subject |-> None, permission |-> None, started |-> 0,
     read |-> 0, role |-> None, decision |-> None]

RoleInit ==
    /\ role_log = [s \in RoleSubjects |-> <<Subject[s].project_role>>]
    /\ role_req = [r \in RoleRequests |-> NoRoleRequest]

\* The subject's row in user_project_roles now.
CurrentRole(s) == role_log[s][Len(role_log[s])]

\* The role assignments made so far.
RoleChanges ==
    Cardinality(UNION {{<<s, i>> : i \in 2 .. Len(role_log[s])} : s \in RoleSubjects})

\* Mutant of get_user_project_role: the role an earlier request of the same
\* subject read is used again.
get_user_project_role_Reused(r, s) ==
    IF \E q \in RoleRequests : q # r /\ role_req[q].pc = "done" /\ role_req[q].subject = s
    THEN LET q == CHOOSE q \in RoleRequests :
                    q # r /\ role_req[q].pc = "done" /\ role_req[q].subject = s
         IN [role |-> role_req[q].role, read |-> role_req[q].read]
    ELSE [role |-> CurrentRole(s), read |-> Len(role_log[s])]

\* get_user_project_role(user_id, project_id): a query of the org database,
\* made by every check; it returns the row as it is now.
get_user_project_role(r, s) == [role |-> CurrentRole(s), read |-> Len(role_log[s])]

\* A request arrives for a route guarded by require_permission(permission).
RoleRequestStarts(r, s, permission) ==
    /\ role_req[r].pc \in {"idle", "done"}
    /\ role_req' = [role_req EXCEPT ![r] =
            [NoRoleRequest EXCEPT !.pc = "checking", !.subject = s,
                                  !.permission = permission,
                                  !.started = Len(role_log[s])]]
    /\ UNCHANGED role_log
    /\ UNCHANGED notRole

\* The dependency runs check_project_permission: the role is fetched and the
\* decision made; a deny raises 403.
RoleCheckReturns(r) ==
    /\ role_req[r].pc = "checking"
    /\ LET s == role_req[r].subject
           got == get_user_project_role(r, s)
       IN role_req' = [role_req EXCEPT ![r] =
            [@ EXCEPT !.pc = "done", !.role = got.role, !.read = got.read,
                      !.decision = Decision(check_project_permission(
                            Subject[s].org_role, got.role, role_req[r].permission))]]
    /\ UNCHANGED role_log
    /\ UNCHANGED notRole

\* An admin assigns the subject another role on the project; the change
\* commits.
AssignRole(s, role) ==
    /\ RoleChanges < MaxRoleChanges
    /\ role # CurrentRole(s)
    /\ role_log' = [role_log EXCEPT ![s] = Append(@, role)]
    /\ UNCHANGED role_req
    /\ UNCHANGED notRole

RoleNext ==
    \/ \E r \in RoleRequests, s \in RoleSubjects, permission \in RoutePermissions :
            RoleRequestStarts(r, s, permission)
    \/ \E r \in RoleRequests : RoleCheckReturns(r)
    \/ \E s \in RoleSubjects, role \in ProjectRoles : AssignRole(s, role)

(***************************************************************************)
(* apiFetch of the frontend: authorization header, refresh on 401, one      *)
(* retry                                                                   *)
(***************************************************************************)

NumApiCallers == 2

ApiCallers == 1 .. NumApiCallers

\* The access tokens the server hands out.
Tokens == {"token_a", "token_b"}

\* The statuses the server answers with.
Statuses == {200, 204, 401, 500}

\* What /auth/refresh can come to: a body with access_token, a body
\* without, a status that is not ok, or a fetch that throws.
RefreshResults == {"access_token", "no_access_token", "not_ok", "throws"}

NoApiCall ==
    [pc |-> "idle", authorized |-> FALSE, refreshes |-> 0, retries |-> 0,
     refreshed |-> FALSE, status |-> 0, result |-> None]

\* The expires_in the server sends with its access tokens, in seconds.
ExpiresInValues == {60, 120}

\* The seconds the token now held is still valid for: none for no token.
Lifetime(token) == IF token = None THEN 0 ELSE expires_in

ApiInit ==
    /\ accessToken \in Tokens \cup {None}
    /\ expires_in \in ExpiresInValues
    /\ token_ttl = Lifetime(accessToken)
    /\ api_call = [c \in ApiCallers |-> NoApiCall]

ApiIdle ==
    /\ accessToken = None
    /\ expires_in \in {e \in ExpiresInValues : \A f \in ExpiresInValues : e >= f}
    /\ token_ttl = 0
    /\ api_call = [c \in ApiCallers |-> NoApiCall]

\* The API client as the AuthProvider finds it when it mounts: no token.
ApiUnauthenticated ==
    /\ accessToken = None
    /\ expires_in \in ExpiresInValues
    /\ token_ttl = 0
    /\ api_call = [c \in ApiCallers |-> NoApiCall]

\* parseResponse: 204 has no body; a body that is not JSON is a parse
\* error; a status outside 200..299 makes the body the error.
parseResponse(status, json) ==
    IF status = 204 THEN "no_content"
    ELSE IF ~json THEN "parse_error"
    ELSE IF ~(status >= 200 /\ status <= 299) THEN "api_error"
    ELSE "data"

\* apiFetch is called: the headers are built, with Authorization when a
\* token is held, and the request is sent.
ApiFetch(c) ==
    /\ api_call[c].pc \in {"idle", "done"}
    /\ api_call' = [api_call EXCEPT ![c] =
            [NoApiCall EXCEPT !.pc = "fetching", !.authorized = (accessToken # None)]]
    /\ UNCHANGED <<accessToken, token_ttl, expires_in>>
    /\ UNCHANGED notApi

\* The response arrives: a 401 while a token is held starts the refresh;
\* anything else is parsed and returned.
FetchReturns(c, status, json) ==
    /\ api_call[c].pc = "fetching"
    /\ IF status = 401 /\ accessToken # None
       THEN api_call' = [api_call EXCEPT ![c] =
                [@ EXCEPT !.pc = "refreshing", !.status = status, !.refreshes = @ + 1]]
       ELSE api_call' = [api_call EXCEPT ![c] =
                [@ EXCEPT !.pc = "done", !.status = status,
                          !.result = parseResponse(status, json)]]
    /\ UNCHANGED <<accessToken, token_ttl, expires_in>>
    /\ UNCHANGED notApi

\* fetch throws, on the first request or on the retry: network_error.
FetchThrows(c) ==
    /\ api_call[c].pc \in {"fetching", "retrying"}
    /\ api_call' = [api_call EXCEPT ![c] = [@ EXCEPT !.pc = "done", !.result = "network_error"]]
    /\ UNCHANGED <<accessToken, token_ttl, expires_in>>
    /\ UNCHANGED notApi

\* refreshAccessToken ends: with an access_token in the body the token is
\* set and true returned; in every other case false.
RefreshReturns(c, outcome, token) ==
    /\ api_call[c].pc = "refreshing"
    /\ IF outcome = "access_token"
       THEN /\ accessToken' = token
            /\ token_ttl' = expires_in
            /\ UNCHANGED expires_in
            /\ api_call' = [api_call EXCEPT ![c] =
                    [@ EXCEPT !.pc = "after_refresh", !.refreshed = TRUE]]
       ELSE /\ UNCHANGED <<accessToken, token_ttl, expires_in>>
            /\ api_call' = [api_call EXCEPT ![c] =
                    [@ EXCEPT !.pc = "after_refresh", !.refreshed = FALSE]]
    /\ UNCHANGED notApi

\* apiFetch goes on after the refresh: refreshed, the request is sent once
\* more with the token held now; not refreshed, the token is cleared and
\* authentication_failed returned.
AfterRefresh(c) ==
    /\ api_call[c].pc = "after_refresh"
    /\ IF api_call[c].refreshed
       THEN /\ api_call' = [api_call EXCEPT ![c] =
                    [@ EXCEPT !.pc = "retrying", !.retries = @ + 1,
                              !.authorized = (accessToken # None)]]
            /\ UNCHANGED <<accessToken, token_ttl, expires_in>>
       ELSE /\ accessToken' = None
            /\ token_ttl' = 0
            /\ UNCHANGED expires_in
            /\ api_call' = [api_call EXCEPT ![c] =
                    [@ EXCEPT !.pc = "done", !.result = "authentication_failed"]]
    /\ UNCHANGED notApi

\* Mutant of RetryReturns: the retry goes through apiFetch again, so a 401
\* on the retry starts another refresh.
RetryReturns_Again(c, status, json) ==
    /\ api_call[c].pc = "retrying"
    /\ IF status = 401 /\ accessToken # None /\ api_call[c].refreshes < 3
       THEN api_call' = [api_call EXCEPT ![c] =
                [@ EXCEPT !.pc = "refreshing", !.status = status, !.refreshes = @ + 1]]
       ELSE api_call' = [api_call EXCEPT ![c] =
                [@ EXCEPT !.pc = "done", !.status = status,
                          !.result = parseResponse(status, json)]]
    /\ UNCHANGED <<accessToken, token_ttl, expires_in>>
    /\ UNCHANGED notApi

\* The retry's response arrives and is parsed and returned, whatever its
\* status.
RetryReturns(c, status, json) ==
    /\ api_call[c].pc = "retrying"
    /\ api_call' = [api_call EXCEPT ![c] =
            [@ EXCEPT !.pc = "done", !.status = status,
                      !.result = parseResponse(status, json)]]
    /\ UNCHANGED <<accessToken, token_ttl, expires_in>>
    /\ UNCHANGED notApi

\* setAccessToken after a login, clearAccessToken on logout.
SetAccessToken(token) ==
    /\ accessToken # token
    /\ accessToken' = token
    /\ token_ttl' = Lifetime(token)
    /\ UNCHANGED <<expires_in, api_call>>
    /\ UNCHANGED notApi

\* Everything a call of apiFetch under way can do next.
ApiStep(c) ==
    \/ \E status \in Statuses, json \in BOOLEAN : FetchReturns(c, status, json)
    \/ FetchThrows(c)
    \/ \E outcome \in RefreshResults, token \in Tokens : RefreshReturns(c, outcome, token)
    \/ AfterRefresh(c)
    \/ \E status \in Statuses, json \in BOOLEAN : RetryReturns(c, status, json)

ApiNext ==
    \/ \E c \in ApiCallers : ApiFetch(c)
    \/ \E c \in ApiCallers : ApiStep(c)
    \/ \E token \in Tokens \cup {None} : SetAccessToken(token)

(***************************************************************************)
(* LoginForm and RegisterForm: handleSubmit                                *)
(***************************************************************************)

MaxRun == 4

MaxSubmits == 2

MinPasswordLength == 8

UpperCase == {"A"}

LowerCase == {"a"}

Digits == {"1"}

Run(ch, n) == [i \in 1 .. n |-> ch]

\* The passwords typed: some uppercase letters, some lowercase letters, some
\* digits.
Passwords ==
    {Run("A", u) \o Run("a", l) \o Run("1", d) : u, l, d \in 0 .. MaxRun}

\* regex.test(password): some character of the string is in the class.
Test(class, password) == \E i \in 1 .. Len(password) : password[i] \in class

validate_LengthFirst(password, confirmPassword) ==
    IF Len(password) < MinPasswordLength
        THEN "Password must be at least 8 characters"
    ELSE IF password # confirmPassword THEN "Passwords do not match"
    ELSE IF ~Test(UpperCase, password)
        THEN "Password must contain at least one uppercase letter"
    ELSE IF ~Test(LowerCase, password)
        THEN "Password must contain at least one lowercase letter"
    ELSE IF ~Test(Digits, password)
        THEN "Password must contain at least one digit"
    ELSE None

\* The client-side validation of RegisterForm: the message of the rule that
\* returns, None when every rule passes.
validate(password, confirmPassword) ==
    IF password # confirmPassword THEN "Passwords do not match"
    ELSE IF Len(password) < MinPasswordLength
        THEN "Password must be at least 8 characters"
    ELSE IF ~Test(UpperCase, password)
        THEN "Password must contain at least one uppercase letter"
    ELSE IF ~Test(LowerCase, password)
        THEN "Password must contain at least one lowercase letter"
    ELSE IF ~Test(Digits, password)
        THEN "Password must contain at least one digit"
    ELSE None

\* What login and register of the AuthProvider return: success, or failure with
\* the server's message, or failure with no message.
AuthResults ==
    {[success |-> TRUE, error |-> None],
     [success |-> FALSE, error |-> "Invalid credentials"],
     [success |-> FALSE, error |-> None]}

FormInit ==
    /\ form_kind \in {"login", "register"}
    /\ form_password \in Passwords
    /\ form_confirm \in IF form_kind = "register" THEN Passwords ELSE {<<>>}
    /\ form_error = None
    /\ form_isLoading = FALSE
    /\ form_pc = "idle"
    /\ form_submits = 0
    /\ form_requests = 0
    /\ form_results = <<>>
    /\ form_onSuccess = 0

FormIdle ==
    /\ form_kind = "login"
    /\ form_password = <<>>
    /\ form_confirm = <<>>
    /\ form_error = None
    /\ form_isLoading = FALSE
    /\ form_pc = "idle"
    /\ form_submits = 0
    /\ form_requests = 0
    /\ form_results = <<>>
    /\ form_onSuccess = 0

\* The submit button is disabled while isLoading.
CanSubmit == ~form_isLoading /\ form_pc # "awaiting" /\ form_submits < MaxSubmits

\* RegisterForm.handleSubmit up to its return or its await.
RegisterSubmit ==
    /\ form_kind = "register"
    /\ CanSubmit
    /\ form_submits' = form_submits + 1
    /\ LET message == validate(form_password, form_confirm) IN
        /\ form_error' = message
        /\ IF message # None
           THEN /\ form_pc' = "rejected"
                /\ UNCHANGED <<form_isLoading, form_requests>>
           ELSE /\ form_pc' = "awaiting"
                /\ form_isLoading' = TRUE
                /\ form_requests' = form_requests + 1
    /\ UNCHANGED <<form_kind, form_password, form_confirm, form_results, form_onSuccess>>
    /\ UNCHANGED notForm

\* RegisterForm.handleSubmit after register returned.
RegisterResolves(result) ==
    /\ form_kind = "register"
    /\ form_pc = "awaiting"
    /\ form_pc' = "settled"
    /\ form_isLoading' = FALSE
    /\ form_results' = Append(form_results, result)
    /\ IF result.success
       THEN form_onSuccess' = form_onSuccess + 1 /\ UNCHANGED form_error
       ELSE /\ form_error' =
                IF result.error # None THEN result.error ELSE "Registration failed"
            /\ UNCHANGED form_onSuccess
    /\ UNCHANGED <<form_kind, form_password, form_confirm, form_submits, form_requests>>
    /\ UNCHANGED notForm

\* LoginForm.handleSubmit up to its await.
LoginSubmit ==
    /\ form_kind = "login"
    /\ CanSubmit
    /\ form_submits' = form_submits + 1
    /\ form_error' = None
    /\ form_isLoading' = TRUE
    /\ form_pc' = "awaiting"
    /\ form_requests' = form_requests + 1
    /\ UNCHANGED <<form_kind, form_password, form_confirm, form_results, form_onSuccess>>
    /\ UNCHANGED notForm

LoginResolves_NoFallback(result) ==
    /\ form_kind = "login"
    /\ form_pc = "awaiting"
    /\ form_pc' = "settled"
    /\ form_isLoading' = FALSE
    /\ form_results' = Append(form_results, result)
    /\ IF result.success
       THEN form_onSuccess' = form_onSuccess + 1 /\ UNCHANGED form_error
       ELSE form_error' = result.error /\ UNCHANGED form_onSuccess
    /\ UNCHANGED <<form_kind, form_password, form_confirm, form_submits, form_requests>>
    /\ UNCHANGED notForm

\* LoginForm.handleSubmit after login returned.
LoginResolves(result) ==
    /\ form_kind = "login"
    /\ form_pc = "awaiting"
    /\ form_pc' = "settled"
    /\ form_isLoading' = FALSE
    /\ form_results' = Append(form_results, result)
    /\ IF result.success
       THEN form_onSuccess' = form_onSuccess + 1 /\ UNCHANGED form_error
       ELSE /\ form_error' = IF result.error # None THEN result.error ELSE "Login failed"
            /\ UNCHANGED form_onSuccess
    /\ UNCHANGED <<form_kind, form_password, form_confirm, form_submits, form_requests>>
    /\ UNCHANGED notForm

FormNext ==
    \/ RegisterSubmit
    \/ \E result \in AuthResults : RegisterResolves(result)
    \/ LoginSubmit
    \/ \E result \in AuthResults : LoginResolves(result)

(***************************************************************************)
(* AuthProvider: session check on mount, login, register, resetPassword,   *)
(* logout, and the scheduled token refresh                                 *)
(***************************************************************************)

NumAuthCallers == 1

NumPageCallers == 1

MaxTimers == 2

\* scheduleRefresh: refresh one minute before expiry.
RefreshMarginSeconds == 60

\* The tasks of the provider: what the user interface calls, the session
\* check of the mount effect, and the callback of a refresh timer.
UserTasks == 1 .. NumAuthCallers

MountTask == NumAuthCallers + 1

TimerTask == NumAuthCallers + 2

AuthTasks == 1 .. NumAuthCallers + 2

\* The components of the page that call apiFetch for their data.
PageCallers == {c \in ApiCallers : c <= NumPageCallers}

UserOps == {"login", "register", "resetPassword", "logout"}

\* The statuses the auth endpoints answer with.
AuthStatuses == {200, 401}

\* What /auth/refresh comes to inside apiFetch: a token, or not.
AuthRefreshResults == {"access_token", "not_ok"}

TheUser == "user@example.com"

\* The access_token of the responses of the auth endpoints.
IssuedToken == "token_a"

\* What the provider sees of an ApiResponse: its data, or none.
ResponseOf(result) == IF result = "data" THEN "data" ELSE "no_data"

NoAuthTask == [op |-> None, pc |-> "idle", result |-> None]

AuthInit ==
    /\ user = None
    /\ isLoading = TRUE
    /\ auth_task = [t \in AuthTasks |-> NoAuthTask]
    /\ timers = <<>>
    /\ logged_out = FALSE
    /\ refresh_failed = FALSE

InFlight(t) == auth_task[t].pc \in {"fetching", "refreshing", "retrying"}

Max0(n) == IF n > 0 THEN n ELSE 0

\* setTimeout: the timer joins the pending ones.
Insert(s, delay) ==
    LET k == Cardinality({i \in 1 .. Len(s) : s[i] <= delay})
    IN  SubSeq(s, 1, k) \o <<delay>> \o SubSeq(s, k + 1, Len(s))

scheduleRefresh_AtExpiry(expiresIn) ==
    IF expiresIn > 0 THEN Insert(timers, expiresIn) ELSE timers

\* scheduleRefresh: a timer for expiresIn - 60 seconds, when that is positive.
\* No timer set earlier is cleared.
scheduleRefresh(expiresIn) ==
    LET refreshTime == expiresIn - RefreshMarginSeconds
    IN  IF refreshTime > 0 THEN Insert(timers, refreshTime) ELSE timers

\* The mount effect runs checkSession: apiPost("/auth/refresh").
Mount ==
    /\ auth_task[MountTask] = NoAuthTask
    /\ auth_task' = [auth_task EXCEPT ![MountTask] =
            [op |-> "checkSession", pc |-> "fetching", result |-> None]]
    /\ UNCHANGED <<user, isLoading, timers, logged_out, refresh_failed>>
    /\ UNCHANGED notAuth

\* login, register, resetPassword or logout is called: its apiPost is sent.
AuthCall(t, op) ==
    /\ auth_task[MountTask] # NoAuthTask
    /\ ~InFlight(t)
    /\ auth_task' = [auth_task EXCEPT ![t] =
            [op |-> op, pc |-> "fetching", result |-> None]]
    /\ UNCHANGED <<user, isLoading, timers, logged_out, refresh_failed>>
    /\ UNCHANGED notAuth

\* A refresh timer is due: its callback sends apiPost("/auth/refresh").
TimerFires ==
    /\ timers # <<>>
    /\ Head(timers) = 0
    /\ ~InFlight(TimerTask)
    /\ timers' = Tail(timers)
    /\ auth_task' = [auth_task EXCEPT ![TimerTask] =
            [op |-> "refresh", pc |-> "fetching", result |-> None]]
    /\ UNCHANGED <<user, isLoading, logged_out, refresh_failed>>
    /\ UNCHANGED notAuth

SessionOps_NotOnMount == {"login", "register", "resetPassword"}

\* The operations that set up a session from response.data.
SessionOps == {"checkSession", "login", "register", "resetPassword"}

\* The task installs the token of response.data and schedules a refresh.
Establishes(op, result) == result = "data" /\ op \in SessionOps \cup {"refresh"}

Clears_LogoutOnSuccess(op, result) ==
    (op = "logout" /\ result = "data") \/ (op = "refresh" /\ result # "data")

\* The task calls setUser(null) and clearAccessToken(): logout whatever its
\* response, the scheduled refresh when it got no data.
Clears(op, result) == op = "logout" \/ (op = "refresh" /\ result # "data")

\* apiPost has returned result to task t, leaving the token as held with ttl
\* seconds to go, and the task runs to its end: the session operations and the
\* scheduled refresh install the token of response.data and schedule the next
\* refresh (the session operations also set the user); logout, and a scheduled
\* refresh without data, clear the user and the token; checkSession ends the
\* loading state.
Settles(t, result, held, ttl) ==
    LET op == auth_task[t].op
        established == Establishes(op, result)
        cleared == Clears(op, result)
    IN  /\ auth_task' = [auth_task EXCEPT ![t] =
                [op |-> op, pc |-> "settled", result |-> ResponseOf(result)]]
        /\ isLoading' = IF op = "checkSession" THEN FALSE ELSE isLoading
        /\ logged_out' = IF op = "logout" THEN TRUE
                         ELSE IF established /\ op \in SessionOps THEN FALSE
                         ELSE logged_out
        /\ refresh_failed' = IF op = "refresh" /\ result # "data" THEN TRUE
                             ELSE IF established /\ op \in SessionOps THEN FALSE
                             ELSE refresh_failed
        /\ IF established
           THEN /\ expires_in > RefreshMarginSeconds => Len(timers) < MaxTimers
                /\ accessToken' = IssuedToken
                /\ token_ttl' = expires_in
                /\ user' = IF op = "refresh" THEN user ELSE TheUser
                /\ timers' = scheduleRefresh(expires_in)
           ELSE IF cleared
           THEN /\ accessToken' = None
                /\ token_ttl' = 0
                /\ user' = None
                /\ UNCHANGED timers
           ELSE /\ accessToken' = held
                /\ token_ttl' = ttl
                /\ UNCHANGED <<user, timers>>
        /\ UNCHANGED <<expires_in, api_call>>
        /\ UNCHANGED notSession

\* apiFetch inside apiPost: the response arrives. A 401 while a token is held
\* starts the refresh; anything else is parsed and returned to the task.
AuthFetchReturns(t, status) ==
    /\ auth_task[t].pc = "fetching"
    /\ IF status = 401 /\ accessToken # None
       THEN /\ auth_task' = [auth_task EXCEPT ![t].pc = "refreshing"]
            /\ UNCHANGED <<user, isLoading, timers, logged_out, refresh_failed>>
            /\ UNCHANGED notAuth
       ELSE Settles(t, parseResponse(status, TRUE), accessToken, token_ttl)

\* fetch throws, on the first request or on the retry: apiFetch returns
\* network_error to the task.
AuthFetchThrows(t) ==
    /\ auth_task[t].pc \in {"fetching", "retrying"}
    /\ Settles(t, "network_error", accessToken, token_ttl)

\* refreshAccessToken inside apiFetch ends: with a token it is set and the
\* request sent once more; without, the token is cleared and
\* authentication_failed returned to the task.
AuthRefreshReturns(t, outcome, token) ==
    /\ auth_task[t].pc = "refreshing"
    /\ IF outcome = "access_token"
       THEN /\ accessToken' = token
            /\ token_ttl' = expires_in
            /\ auth_task' = [auth_task EXCEPT ![t].pc = "retrying"]
            /\ UNCHANGED <<user, isLoading, timers, logged_out, refresh_failed>>
            /\ UNCHANGED <<expires_in, api_call>>
            /\ UNCHANGED notSession
       ELSE Settles(t, "authentication_failed", None, 0)

\* The retry's response arrives and is parsed and returned to the task.
AuthRetryReturns(t, status) ==
    /\ auth_task[t].pc = "retrying"
    /\ Settles(t, parseResponse(status, TRUE), accessToken, token_ttl)

\* Everything a task under way can do next.
AuthStep(t) ==
    \/ \E status \in AuthStatuses : AuthFetchReturns(t, status)
    \/ AuthFetchThrows(t)
    \/ \E outcome \in AuthRefreshResults : AuthRefreshReturns(t, outcome, IssuedToken)
    \/ \E status \in AuthStatuses : AuthRetryReturns(t, status)

\* A component's apiFetch under way goes on.
PageStep(c) ==
    \/ \E status \in AuthStatuses : FetchReturns(c, status, TRUE)
    \/ \E outcome \in AuthRefreshResults : RefreshReturns(c, outcome, IssuedToken)
    \/ AfterRefresh(c)
    \/ \E status \in AuthStatuses : RetryReturns(c, status, TRUE)

\* A minute passes: no timer is due and unfired, and the request of a timer's
\* callback is not left unanswered for a minute.
AuthTick ==
    /\ \A i \in 1 .. Len(timers) : timers[i] > 0
    /\ ~InFlight(TimerTask)
    /\ token_ttl > 0 \/ timers # <<>>
    /\ timers' = [i \in 1 .. Len(timers) |-> Max0(timers[i] - RefreshMarginSeconds)]
    /\ token_ttl' = Max0(token_ttl - RefreshMarginSeconds)
    /\ UNCHANGED <<user, isLoading, auth_task, logged_out, refresh_failed>>
    /\ UNCHANGED <<accessToken, expires_in, api_call>>
    /\ UNCHANGED notSession

AuthNext ==
    \/ Mount
    \/ \E t \in UserTasks, op \in UserOps : AuthCall(t, op)
    \/ TimerFires
    \/ \E t \in AuthTasks : AuthStep(t)
    \/ \E c \in PageCallers : ApiFetch(c)
    \/ \E c \in PageCallers : PageStep(c)
    \/ AuthTick

(***************************************************************************)
(* Specifications                                                          *)
(***************************************************************************)

PermInit == EvInit /\ SvcInit /\ ReqIdle /\ RegInit /\ DirIdle /\ RoleInit /\ ApiIdle /\ FormIdle /\ AuthInit

SpecPerm == PermInit /\ [][PermNext]_vars

ServiceInit == EvIdle /\ SvcInit /\ ReqIdle /\ RegInit /\ DirIdle /\ RoleInit /\ ApiIdle /\ FormIdle /\ AuthInit

SpecService == ServiceInit /\ [][SvcNext]_vars

RequestInit == EvIdle /\ SvcInit /\ ReqInit /\ RegInit /\ DirIdle /\ RoleInit /\ ApiIdle /\ FormIdle /\ AuthInit

SpecRequest == RequestInit /\ [][RequestNext]_vars

\* Every awaited call of a started request eventually returns or raises.
SpecRequestLive == SpecRequest /\ \A r \in Requests : WF_vars(Step(r))

RegistryInit == EvIdle /\ SvcInit /\ ReqIdle /\ RegInit /\ DirIdle /\ RoleInit /\ ApiIdle /\ FormIdle /\ AuthInit

SpecRegistry == RegistryInit /\ [][RegistryNext]_vars

DirectoryInit == EvIdle /\ SvcInit /\ ReqIdle /\ RegInit /\ DirInit /\ RoleInit /\ ApiIdle /\ FormIdle /\ AuthInit

SpecDirectory == DirectoryInit /\ [][DirectoryNext]_vars

RolesInit == EvIdle /\ SvcInit /\ ReqIdle /\ RegInit /\ DirIdle /\ RoleInit /\ ApiIdle /\ FormIdle /\ AuthInit

SpecRoles == RolesInit /\ [][RoleNext]_vars

ApiClientInit == EvIdle /\ SvcInit /\ ReqIdle /\ RegInit /\ DirIdle /\ RoleInit /\ ApiInit /\ FormIdle /\ AuthInit

SpecApi == ApiClientInit /\ [][ApiNext]_vars

\* Every fetch of a call under way ends: its promise resolves or rejects.
SpecApiLive == SpecApi /\ \A c \in ApiCallers : WF_vars(ApiStep(c))

\* What the event loop owes a call of get_org_pool that is inside create_pool:
\* the await ends one way or another (it returns, it raises, or it is known
\* never to end).
CreatePoolEnds(w) ==
    RegCreatePoolReturns(w) \/ RegCreatePoolRaises(w) \/ RegCreatePoolStalls(w)

\* The sweep, once it holds the lock, runs to its end.
SweepRuns == (\E l \in DatabaseNames : SweepEvicts(l)) \/ SweepPoolClosed \/ SweepEnds

\* asyncio.Lock wakes its waiters first come, first served: a waiter gets the
\* lock if the lock is free again and again.
SpecRegistryLive ==
    /\ SpecRegistry
    /\ \A w \in Workers : WF_vars(CreatePoolEnds(w)) /\ SF_vars(RegLockAcquired(w))
    /\ WF_vars(SweepRuns)

FormsInit == EvIdle /\ SvcInit /\ ReqIdle /\ RegInit /\ DirIdle /\ RoleInit /\ ApiIdle /\ FormInit /\ AuthInit

SpecForms == FormsInit /\ [][FormNext]_vars

AuthProviderInit ==
    /\ EvIdle /\ SvcInit /\ ReqIdle /\ RegInit /\ DirIdle /\ RoleInit /\ FormIdle
    /\ ApiUnauthenticated /\ AuthInit

SpecAuth == AuthProviderInit /\ [][AuthNext]_vars

(***************************************************************************)
(* Claims                                                                  *)
(***************************************************************************)

\* The pools create_pool has returned for database d.
SvcPoolsMadeFor(d) == {p \in 1 .. Len(svc_made) : svc_made[p] = d}

\* C1: concurrent get_org_pool calls for one database name construct at most one
\* pool, and every caller that returned for that name holds the same pool.
C1_AtMostOneConstruction ==
    /\ \A d \in DatabaseNames : Cardinality(SvcPoolsMadeFor(d)) <= 1
    /\ \A c1, c2 \in Callers :
        (svc_pc[c1] = "returned" /\ svc_pc[c2] = "returned" /\ svc_arg[c1] = svc_arg[c2])
            => svc_ret[c1] = svc_ret[c2]

\* The org database of the tenant request r resolved to.
TenantDatabase(r) == organizations[OrgOf(r)].database_name

\* The requests whose writes database d holds: item rows and audit rows.
ItemWriters(d) == UNION {i.writers : i \in db[d].items}

AuditWriters(d) == {a.corr : a \in db[d].audit}

\* C2: a request is bound only to a pool of its own tenant's database, holds
\* connections of that pool only, and every committed write of a request is in
\* the database of the request's own tenant.
C2_TenantIsolation ==
    /\ \A r \in Requests :
        /\ req[r].org_pool # NoPool => DatabaseOf(req[r].org_pool) = TenantDatabase(r)
        /\ req[r].conn # NoPool => DatabaseOf(req[r].conn) = TenantDatabase(r)
    /\ \A d \in DatabaseNames : \A r \in ItemWriters(d) \cup AuditWriters(d) :
        TenantDatabase(r) = d

\* C2 witness: requests of two different tenants have their transactions open
\* at the same time.
C2_Witness ==
    \E r1, r2 \in Requests :
        /\ req[r1].pc = "tx_open" /\ req[r2].pc = "tx_open"
        /\ OrgOf(r1) # OrgOf(r2)
        /\ tx[r1].rows # {} /\ tx[r2].rows # {}

\* Position of an orchestrator state in the order of the request sequence.
Rank(state) ==
    CASE state = "Resolving" -> 1
      [] state = "PoolAcquired" -> 2
      [] state = "PermissionChecked" -> 3
      [] state = "Executing" -> 4
      [] state \in {"Committed", "RolledBack"} -> 5
      [] state = "Released" -> 6

InTrace(r, state) == \E k \in 1 .. Len(req[r].trace) : req[r].trace[k] = state

RaiseStep(r) ==
    /\ req[r].pc = "tx_open"
    /\ req'[r].pc = "tx_done"
    /\ req'[r].outcome = "OperationFailed"

C5_MutationIffAudit ==
    \A d \in DatabaseNames : ItemWriters(d) = AuditWriters(d)

\* The workers that hold a handle to pool p.
HandleHolders(p) == {w \in Workers : reg_pc[w] = "holding" /\ reg_handle[w] = p}

Holders(p) == {r \in Requests : req[r].conn = p}

\* Each pool's count of checked-out connections is the number of requests
\* holding one, and a request has released as often as it acquired, less the
\* connection it holds.
ReferencesBalanced ==
    /\ \A p \in 1 .. Len(pools_made) : active[p] = Cardinality(Holders(p))
    /\ \A r \in Requests :
        req[r].acquired = req[r].released + (IF req[r].conn # NoPool THEN 1 ELSE 0)

ResolutionFailures ==
    {"AuthenticationError", "NotFoundError", "CentralDatabaseError", "CreatePoolError"}

C9_OrgOverride ==
    (ev_result # "pending" /\ ev_org \in {"owner", "admin"}) => ev_result = "allow"

\* C10 as stated: an org member with no project role is allowed the read
\* permissions and denied the mutating ones.
C10_NoRoleReadsAsViewer ==
    (ev_result # "pending" /\ ev_org = "member" /\ ev_proj = None)
        => (ev_result = "allow" <=> ev_perm \in ReadPermissions)

\* C10 amended: an org member with no project role is denied every permission,
\* the read permissions included.
C10_NoRoleDeniesAll ==
    (ev_result # "pending" /\ ev_org = "member" /\ ev_proj = None)
        => ev_result = "deny"

\* C10 witness: a read permission was evaluated for a member with no project role.
C10_Witness ==
    /\ ev_result = "deny" /\ ev_org = "member" /\ ev_proj = None
    /\ ev_perm \in ReadPermissions
    /\ ev_impl = "check_project_permission"

\* The table the evaluated implementation reads.
TableOf(impl) ==
    IF impl = "check_project_permission" THEN PROJECT_ROLE_PERMISSIONS ELSE ROLE_PERMISSIONS

\* The delete action of either permission enum.
DeletePermissions == {"delete", "delete_items"}

RegPoolsMadeFor(l) == {p \in 1 .. Len(reg_made) : reg_made[p] = l}

\* C12: a failed pool construction fails that acquire call, leaves no entry
\* for the locator and the creation lock free; the registry only ever holds
\* pools that were constructed for their locator; and a later acquire for the
\* locator goes to construction again and, when the construction returns,
\* gets the new pool.
C12_FailedConstructionLeavesNoEntry ==
    /\ [][\A w \in Workers :
            /\ (reg_pc[w] = "creating" /\ reg_pc'[w] = "failed") =>
                  /\ reg_pools'[reg_loc[w]] = NoEntry
                  /\ reg_lock' = "free"
                  /\ reg_handle'[w] = NoPool
            /\ (reg_pc[w] = "failed" /\ reg_pc'[w] # "failed"
                    /\ reg_pools[reg_loc'[w]].pool = NoPool) =>
                  reg_pc'[w] = "waiting_lock"
            /\ (reg_pc[w] = "creating" /\ reg_pc'[w] = "holding") =>
                  /\ reg_handle'[w] = Len(reg_made')
                  /\ reg_made'[reg_handle'[w]] = reg_loc[w]
                  /\ reg_pools'[reg_loc[w]].pool = reg_handle'[w]]_vars
    /\ [](\A l \in DatabaseNames :
            reg_pools[l].pool # NoPool => reg_pools[l].pool \in RegPoolsMadeFor(l))

\* C12 witness: a worker holds a pool for a locator whose construction failed
\* before.
C12_Witness ==
    \E w \in Workers :
        /\ reg_pc[w] = "holding"
        /\ reg_loc[w] \in reg_failed
        /\ reg_pools[reg_loc[w]].pool = reg_handle[w]

\* A call of get_org_pool that has not come back to its caller.
InAcquire(w) == reg_pc[w] \in {"waiting_lock", "creating", "stalled"}

\* C13: every acquire call eventually returns a pool handle or fails, also
\* when a pool construction stalls forever.
C13_EveryAcquireReturns ==
    \A w \in Workers : InAcquire(w) ~> reg_pc[w] \in {"holding", "failed"}

\* An entry nobody refers to that was last used longer ago than the idle
\* threshold.
IdleUnreferenced(entry) ==
    /\ entry.pool # NoPool
    /\ entry.refs = 0
    /\ clock - entry.last_used > IdleThreshold

\* C14: when a sweep ends no unreferenced entry older than the idle threshold
\* is left, and every pool that left the registry is closed or being closed;
\* an acquire that returns afterwards returns the pool now registered for its
\* locator, which is fresh: neither closed nor being closed.
C14_IdleEvictedThenRebuilt ==
    /\ [][(sweep_pc = "scanning" /\ sweep_pc' = "idle") =>
            \A l \in DatabaseNames : ~IdleUnreferenced(reg_pools[l])]_vars
    /\ [][\A w \in Workers : (reg_pc[w] # "holding" /\ reg_pc'[w] = "holding") =>
            /\ reg_handle'[w] \notin reg_closed'
            /\ reg_handle'[w] # sweep_victim'
            /\ reg_pools'[reg_loc'[w]].pool = reg_handle'[w]]_vars
    /\ [](\A p \in 1 .. Len(reg_made) :
            (\A l \in DatabaseNames : reg_pools[l].pool # p) =>
                p \in reg_closed \cup {sweep_victim})

\* C14 witness: a worker holds a pool for a locator whose earlier pool was
\* evicted and closed.
C14_Witness ==
    \E w \in Workers :
        /\ reg_pc[w] = "holding"
        /\ \E p \in reg_closed : reg_made[p] = reg_loc[w] /\ p # reg_handle[w]

\* C15: release takes exactly one off the entry's reference count and leaves
\* the pool registered and open; the count always equals the number of handles
\* acquired and not yet released, and is never negative.
C15_ReleaseDecrementsByOne ==
    /\ [][\A w \in Workers : (reg_pc[w] = "holding" /\ reg_pc'[w] = "released") =>
            /\ reg_pools'[reg_loc[w]].refs = reg_pools[reg_loc[w]].refs - 1
            /\ reg_pools'[reg_loc[w]].pool = reg_handle[w]
            /\ reg_closed' = reg_closed
            /\ sweep_victim' = sweep_victim]_vars
    /\ [](\A l \in DatabaseNames :
            /\ reg_pools[l].refs >= 0
            /\ reg_pools[l].refs = Cardinality(HandleHolders(reg_pools[l].pool)))

\* C15 witness: one worker has released its handle of a pool that another
\* worker still holds.
C15_Witness ==
    \E w \in Workers :
        /\ reg_pc[w] = "released"
        /\ reg_pools[reg_loc[w]].pool # NoPool
        /\ reg_pools[reg_loc[w]].refs = 1

\* C16: a committed audit row is never updated or deleted: in every step the
\* committed audit rows of every database are still there, unchanged, and
\* the only change to the audit log is rows added.
C16_AuditAppendOnly ==
    [][\A d \in DatabaseNames : db[d].audit \subseteq db'[d].audit]_vars

\* C16 witness: a second change to an entity has committed after the audit
\* row of a first one.
C16_Witness ==
    \E d \in DatabaseNames : \E a, b \in db[d].audit :
        a # b /\ a.entity_id = b.entity_id

\* The calls of get_org_connection that have come back.
DirFinished == {c \in DirCallers : dir_call[c].pc \in {"returned", "raised"}}

\* C17: the lookup fails with NotFoundError exactly when the central database
\* answered and the organization has no row or a soft-deleted one; it fails
\* with the database's error, never NotFoundError, when the central database
\* is unavailable; and a call made for a soft-deleted organization never
\* returns a pool, also when one was created before the deletion.
C17_SoftDeletedNotServed ==
    \A c \in DirFinished :
        /\ dir_call[c].out = "NotFoundError" <=> dir_call[c].seen \in {"absent", "deleted"}
        /\ dir_call[c].seen = "unavailable" => dir_call[c].out = "CentralDatabaseError"
        /\ dir_call[c].pc = "returned" => dir_call[c].at_start # "deleted"

\* C18: the permission check of a request uses a project role the subject's
\* row held at or after the start of the request, never an older one: after
\* a role change commits, every request that starts later is decided by the
\* changed role (or a still later one).
C18_RoleChangeSeenByNextRequest ==
    \A r \in RoleRequests : role_req[r].pc = "done" =>
        LET s == role_req[r].subject
        IN /\ role_req[r].read >= role_req[r].started
           /\ role_req[r].role = role_log[s][role_req[r].read]
           /\ role_req[r].decision =
                Decision(check_project_permission(Subject[s].org_role,
                            role_log[s][role_req[r].read], role_req[r].permission))

\* C18 witness: two requests of one subject for the same permission, one
\* decided before a role change and one started after it, with different
\* decisions.
C18_Witness ==
    \E q, r \in RoleRequests :
        /\ role_req[q].pc = "done" /\ role_req[r].pc = "done"
        /\ role_req[q].subject = role_req[r].subject
        /\ role_req[q].permission = role_req[r].permission
        /\ role_req[q].read < role_req[r].started
        /\ role_req[q].decision # role_req[r].decision

\* The outcomes that are errors of the taxonomy.
ErrorOutcomes ==
    {"AuthenticationError", "NotFoundError", "CentralDatabaseError", "CreatePoolError",
     "AuthorizationError", "RoleQueryError", "QueryError", "OperationFailed"}

\* C19: within one request the directory lookup, the pool construction and
\* the business operation are each made at most once; a request that failed
\* stopped at its first failure (nothing later in the flow was attempted) and
\* a response, once given, is final.
C19_ErrorsAreTerminal ==
    /\ [](\A r \in Requests :
            /\ req[r].attempts.lookup <= 1
            /\ req[r].attempts.create_pool <= 1
            /\ req[r].attempts.operation <= 1
            /\ req[r].outcome \in {"NotFoundError", "CentralDatabaseError"} =>
                    req[r].attempts = [lookup |-> 1, create_pool |-> 0, operation |-> 0]
            /\ req[r].outcome = "CreatePoolError" =>
                    req[r].attempts = [lookup |-> 1, create_pool |-> 1, operation |-> 0]
            /\ req[r].outcome \in {"AuthorizationError", "RoleQueryError"} =>
                    req[r].attempts.operation = 0
            /\ req[r].outcome \in {"QueryError", "OperationFailed"} =>
                    req[r].attempts.operation = 1)
    /\ [][\A r \in Requests :
            (req[r].pc = "responded" /\ req[r].outcome \in ErrorOutcomes) =>
                req'[r] = req[r]]_vars

\* C19 witness: one request failed in the directory lookup, another in its
\* business operation.
C19_Witness ==
    \E q, r \in Requests :
        /\ req[q].pc = "responded" /\ req[q].outcome = "CentralDatabaseError"
        /\ req[r].pc = "responded" /\ req[r].outcome = "OperationFailed"

PasswordsMatch == form_password = form_confirm

LongEnough == Len(form_password) >= 8

HasUppercase == \E i \in 1 .. Len(form_password) : form_password[i] = "A"

HasLowercase == \E i \in 1 .. Len(form_password) : form_password[i] = "a"

HasDigit == \E i \in 1 .. Len(form_password) : form_password[i] = "1"

AllRulesPass ==
    PasswordsMatch /\ LongEnough /\ HasUppercase /\ HasLowercase /\ HasDigit

\* The message of the first rule that fails, in the order match, length,
\* uppercase, lowercase, digit.
FirstFailingRule ==
    CASE ~PasswordsMatch -> "Passwords do not match"
      [] PasswordsMatch /\ ~LongEnough -> "Password must be at least 8 characters"
      [] PasswordsMatch /\ LongEnough /\ ~HasUppercase ->
            "Password must contain at least one uppercase letter"
      [] PasswordsMatch /\ LongEnough /\ HasUppercase /\ ~HasLowercase ->
            "Password must contain at least one lowercase letter"
      [] PasswordsMatch /\ LongEnough /\ HasUppercase /\ HasLowercase /\ ~HasDigit ->
            "Password must contain at least one digit"
      [] OTHER -> None

\* C24: RegisterForm calls register only when the password equals its
\* confirmation, has at least 8 characters and contains an uppercase letter, a
\* lowercase letter and a digit; otherwise, once submitted, no request has been
\* sent, onSuccess has not been called, and the message of the first failing
\* rule in the order match, length, uppercase, lowercase, digit is shown.
C24_RegisterOnlyWhenValid ==
    form_kind = "register" =>
        /\ form_requests > 0 => AllRulesPass
        /\ (form_submits > 0 /\ AllRulesPass) => form_requests > 0
        /\ (form_submits > 0 /\ ~AllRulesPass) =>
            /\ form_requests = 0
            /\ form_onSuccess = 0
            /\ form_error = FirstFailingRule

\* C24 witness: a submitted registration whose password matches, is long enough
\* and has uppercase letters and digits but no lowercase letter was rejected.
C24_Witness ==
    /\ form_kind = "register"
    /\ form_pc = "rejected"
    /\ PasswordsMatch /\ LongEnough /\ HasUppercase /\ ~HasLowercase /\ HasDigit
    /\ form_error = "Password must contain at least one lowercase letter"

\* The results of login so far that were a success.
LoginSuccesses == {k \in 1 .. Len(form_results) : form_results[k].success}

\* C25: LoginForm has called onSuccess once per success login returned and
\* never otherwise; after a failed login an error message is shown, the form is
\* not loading and its submit button is enabled, so that it can be submitted
\* again.
C25_LoginOutcome ==
    form_kind = "login" =>
        /\ form_onSuccess = Cardinality(LoginSuccesses)
        /\ (form_pc = "settled" /\ ~form_results[Len(form_results)].success) =>
            /\ form_error # None
            /\ ~form_isLoading
            /\ form_submits < MaxSubmits => ENABLED LoginSubmit

\* C25 witness: a login failed with no message from the server, and the form
\* was submitted again and failed again.
C25_Witness ==
    /\ form_kind = "login"
    /\ form_pc = "settled"
    /\ Len(form_results) = 2
    /\ form_results[1] = [success |-> FALSE, error |-> None]
    /\ ~form_results[2].success
    /\ form_onSuccess = 0

\* The workers inside create_pool, returning or not.
InConstruction == {w \in Workers : reg_pc[w] \in {"creating", "stalled"}}

\* C26: first-acquire calls for different locators do not serialize on each
\* other: no acquire waits for the creation lock while the only constructions
\* under way, in progress or stalled, are for other locators than its own.
C26_DifferentLocatorsDoNotWait ==
    \A w \in Workers :
        (reg_pc[w] = "waiting_lock" /\ InConstruction # {})
            => \E v \in InConstruction : reg_loc[v] = reg_loc[w]

\* The requests whose create_item has committed in database d.
CommittedCreates(d) ==
    {r \in Requests :
        /\ req[r].op = "create" /\ req[r].outcome = "ok"
        /\ TenantDatabase(r) = d}

\* The committed items of database d that request r created.
CreatedBy(d, r) == {i \in db[d].items : i.writers = {r} /\ i.rev = 0}

\* The item numbers committed in database d.
ItemNums(d) == {i.item_num : i \in db[d].items}

\* C27: for any interleaving of create_item calls on one project, every
\* committed create has its own item, with an item_num no other item has;
\* next_item_num is greater than every committed item_num; and a newly
\* committed item_num is greater than every item_num committed before it.
C27_ItemNumbersDistinctIncreasing ==
    /\ [](\A d \in DatabaseNames :
            /\ \A n \in ItemNums(d) : n < db[d].next_item_num
            /\ \A r \in CommittedCreates(d) : Cardinality(CreatedBy(d, r)) = 1
            /\ \A r1, r2 \in CommittedCreates(d) :
                r1 # r2 => \A i \in CreatedBy(d, r1), j \in CreatedBy(d, r2) :
                                i.item_num # j.item_num)
    /\ [][\A d \in DatabaseNames :
            /\ db'[d].next_item_num >= db[d].next_item_num
            /\ \A i \in db'[d].items :
                i.item_num \notin ItemNums(d) => \A n \in ItemNums(d) : i.item_num > n]_vars

\* C27 witness: two create_item calls on the same project have both committed,
\* with consecutive item numbers.
C27_Witness ==
    \E d \in DatabaseNames : \E r1, r2 \in CommittedCreates(d) :
        /\ r1 # r2
        /\ \E i \in CreatedBy(d, r1), j \in CreatedBy(d, r2) : i.item_num + 1 = j.item_num

\* The step in which the session check of the mount effect completes.
CheckSessionCompletes ==
    InFlight(MountTask) /\ auth_task'[MountTask].pc = "settled"

\* C21 as stated: the provider starts loading and unauthenticated; when the
\* initial session check completes isLoading becomes false and is never true
\* again, and isAuthenticated is then true exactly when the check returned a
\* user.
C21_AuthenticatedIffCheckReturnedUser ==
    [][/\ auth_task[MountTask] = NoAuthTask => (isLoading /\ user = None)
       /\ ~isLoading => ~isLoading'
       /\ CheckSessionCompletes =>
            /\ ~isLoading'
            /\ user' # None <=> auth_task'[MountTask].result = "data"]_vars

\* C21 amended: the provider starts loading and unauthenticated; when the
\* initial session check completes isLoading becomes false and is never true
\* again; isAuthenticated is then true when the check returned a user, and is
\* otherwise what it was before: false unless a login, register or password
\* reset succeeded while the check was in flight.
C21_CheckEndsLoadingAndSetsUser ==
    [][/\ auth_task[MountTask] = NoAuthTask => (isLoading /\ user = None)
       /\ ~isLoading => ~isLoading'
       /\ InFlight(MountTask) => isLoading
       /\ CheckSessionCompletes =>
            /\ ~isLoading'
            /\ auth_task'[MountTask].result = "data" => user' # None
            /\ auth_task'[MountTask].result # "data" => user' = user]_vars

\* C21 witness: the session check returned a user before anything else was
\* called: loading has ended and the user is set.
C21_Witness ==
    /\ auth_task[MountTask] = [op |-> "checkSession", pc |-> "settled", result |-> "data"]
    /\ \A t \in UserTasks : auth_task[t] = NoAuthTask
    /\ ~isLoading
    /\ user # None

RefreshOnItsWay ==
    \/ InFlight(TimerTask)
    \/ \E i \in 1 .. Len(timers) : timers[i] + 60 <= token_ttl

C28_AuthenticatedHoldsToken == user # None => accessToken # None

\* C29: at most one refresh timer is pending at any time.
C29_AtMostOneRefreshTimer == Len(timers) <= 1

\* C30: after a logout has completed, and until the next session is set up,
\* there is no access token and no user.
C30_LoggedOutStaysLoggedOut == logged_out => (accessToken = None /\ user = None)

====
